---- MODULE Spec2Model ----
(***************************************************************************)
(* A model of the skull agent: the construction of the agent by NewAgent,  *)
(* the decision parser of Agent.ProcessInput, the argument validator       *)
(* Agent.ValidateToolCall, the request loop of AgentCLI.processUserInput,  *)
(* Agent.PostProcess, the query pipeline Agent.ProcessQuery with          *)
(* RefreshTools, the agent's persistent session to the tool server        *)
(* (ensureMCPSession, CallToolRemote, AgentCLI.Close), alone and under     *)
(* concurrent callers, and the scraper's Service.ScrapeMultiple.           *)
(*                                                                         *)
(* Text is modelled as a sequence of lexical tokens; JSON numbers are      *)
(* integers counting tenths (9 is 0.9, 10 is 1, 15 is 1.5).                *)
(***************************************************************************)
EXTENDS Integers, Sequences, FiniteSets, TLC

VARIABLES
    tools,      \* Agent.tools of internal/agent: the registry snapshot
    built,      \* how NewAgent went: its config, the connection, the listing
    pc,         \* position of AgentCLI.processUserInput
    reply,      \* the chat completion's outcome for the decision call
    response,   \* the *Response ProcessInput returned, or NoResponse
    idx,        \* index of the tool call the loop is at (1-based)
    verdicts,   \* per proposed call, what the loop did with it
    sent,       \* the calls handed to the transport, in order
    llmCalls,   \* chat-completion calls issued by ProcessInput
    ret,        \* what processUserInput returned
    toolCall,   \* the argument of a direct ValidateToolCall invocation
    valErr,     \* the value that invocation returned
    qpc,        \* position of Agent.ProcessQuery
    qTools,     \* Agent.tools of the query agent
    qListed,    \* the last answer of ListTools to RefreshTools, and the
                \* tools before it
    qReply,     \* the chat completion's outcome for analyzeQuery
    qCalls,     \* the tool calls analyzeQuery returned
    qIdx,       \* index of the tool call executeTools is at
    qResults,   \* the results executeTools collected
    qSent,      \* the calls executeTools handed to the transport
    qContext,   \* the results context generateFinalResponse built
    qAnswer,    \* the chat completion's outcome for the response generator
    qRet,       \* what ProcessQuery returned
    ppc,        \* position of a direct Agent.PostProcess invocation
    ppIn,       \* its instruction and content
    ppCalls,    \* chat-completion calls it issued
    ppReply,    \* the chat completion's outcome
    ppRet,      \* what it returned
    mcpSession, \* Agent.mcpSession of internal/agent, or NoSession
    sessions,   \* the client sessions Connect has created so far
    open,       \* the sessions among them that have not been closed
    remote,     \* what the calls of CallToolRemote returned, in order
    gpc,        \* per concurrent caller, its position in ensureMCPSession
    glocal,     \* per concurrent caller, the session Connect returned to it
    spc,        \* position of Service.ScrapeMultiple
    nurls,      \* len(urls) of that call
    spawned,    \* the goroutines its loop has started
    wpc,        \* per URL, the position of its goroutine
    sem,        \* the values held in the semaphore channel
    errChan,    \* the values buffered in errChan, oldest first
    sresults,   \* the results slice
    serrors,    \* the errors the waiting loop has collected
    received,   \* the values the waiting loop has received
    sret,       \* what ScrapeMultiple returned
    scraped     \* per URL, what ScrapeURL returned for it

cliVars == <<pc, reply, response, idx, verdicts, sent, llmCalls, ret>>
valVars == <<toolCall, valErr>>
queryVars ==
    <<qpc, qTools, qListed, qReply, qCalls, qIdx, qResults, qSent, qContext,
      qAnswer, qRet>>
postVars == <<ppc, ppIn, ppCalls, ppReply, ppRet>>
sessVars == <<mcpSession, sessions, open, remote>>
raceVars == <<gpc, glocal>>
scrapeVars ==
    <<spc, nurls, spawned, wpc, sem, errChan, sresults, serrors, received, sret,
      scraped>>
auxVars == <<raceVars, scrapeVars>>
vars == <<tools, built, sessVars, cliVars, valVars, queryVars, postVars, auxVars>>

----------------------------------------------------------------------------
(* Bounds of the model.                                                    *)

\* longest tool-call list a decision proposes
MaxCalls == 3

----------------------------------------------------------------------------
(* Lexical tokens of a reply.                                              *)

LBRACE == [t |-> "{"]
RBRACE == [t |-> "}"]
LBRACK == [t |-> "["]
RBRACK == [t |-> "]"]
COLON == [t |-> ":"]
COMMA == [t |-> ","]
TTRUE == [t |-> "true"]
TFALSE == [t |-> "false"]
TNULL == [t |-> "null"]
WS == [t |-> "ws"]
\* a code fence: three backquotes
FENCE == [t |-> "fence"]
TStr(s) == [t |-> "str", s |-> s]
TNum(n) == [t |-> "num", n |-> n]
TWord(w) == [t |-> "word", s |-> w]

\* strings.TrimSpace: leading and trailing white space removed
RECURSIVE TrimLeft(_)
TrimLeft(toks) ==
    IF toks # <<>> /\ Head(toks) = WS THEN TrimLeft(Tail(toks)) ELSE toks

RECURSIVE TrimRight(_)
TrimRight(toks) ==
    IF toks # <<>> /\ toks[Len(toks)] = WS
    THEN TrimRight(SubSeq(toks, 1, Len(toks) - 1))
    ELSE toks

TrimSpace(toks) == TrimRight(TrimLeft(toks))

----------------------------------------------------------------------------
(* encoding/json: the syntax of a JSON text, read into a value tree.       *)
(* A value is [k |-> "str", s], [k |-> "num", n], [k |-> "bool", b],       *)
(* [k |-> "null"], [k |-> "arr", el] or [k |-> "obj", el] whose el is the  *)
(* sequence of [key, val] members in the order written.                    *)

JStr(s) == [k |-> "str", s |-> s]
JNum(n) == [k |-> "num", n |-> n]
JBool(b) == [k |-> "bool", b |-> b]
JNull == [k |-> "null"]
JArr(el) == [k |-> "arr", el |-> el]
JObj(el) == [k |-> "obj", el |-> el]

ParseFail == [ok |-> FALSE]
ParseOk(v, next) == [ok |-> TRUE, v |-> v, next |-> next]

RECURSIVE ParseValue(_, _)
RECURSIVE ParseMembers(_, _, _)
RECURSIVE ParseElements(_, _, _)

\* the value starting at token i
ParseValue(toks, i) ==
    IF i > Len(toks) THEN ParseFail
    ELSE LET tk == toks[i] IN
         CASE tk.t = "str" -> ParseOk(JStr(tk.s), i + 1)
           [] tk.t = "num" -> ParseOk(JNum(tk.n), i + 1)
           [] tk.t = "true" -> ParseOk(JBool(TRUE), i + 1)
           [] tk.t = "false" -> ParseOk(JBool(FALSE), i + 1)
           [] tk.t = "null" -> ParseOk(JNull, i + 1)
           [] tk.t = "{" ->
                IF i + 1 <= Len(toks) /\ toks[i + 1] = RBRACE
                THEN ParseOk(JObj(<<>>), i + 2)
                ELSE ParseMembers(toks, i + 1, <<>>)
           [] tk.t = "[" ->
                IF i + 1 <= Len(toks) /\ toks[i + 1] = RBRACK
                THEN ParseOk(JArr(<<>>), i + 2)
                ELSE ParseElements(toks, i + 1, <<>>)
           [] OTHER -> ParseFail

\* "key" : value, then "," and more members or "}"
ParseMembers(toks, i, acc) ==
    IF i + 1 > Len(toks) \/ toks[i].t # "str" \/ toks[i + 1] # COLON
    THEN ParseFail
    ELSE LET r == ParseValue(toks, i + 2) IN
         IF ~r.ok \/ r.next > Len(toks) THEN ParseFail
         ELSE LET acc2 == Append(acc, [key |-> toks[i].s, val |-> r.v]) IN
              CASE toks[r.next] = COMMA -> ParseMembers(toks, r.next + 1, acc2)
                [] toks[r.next] = RBRACE -> ParseOk(JObj(acc2), r.next + 1)
                [] OTHER -> ParseFail

\* value, then "," and more elements or "]"
ParseElements(toks, i, acc) ==
    LET r == ParseValue(toks, i) IN
    IF ~r.ok \/ r.next > Len(toks) THEN ParseFail
    ELSE LET acc2 == Append(acc, r.v) IN
         CASE toks[r.next] = COMMA -> ParseElements(toks, r.next + 1, acc2)
           [] toks[r.next] = RBRACK -> ParseOk(JArr(acc2), r.next + 1)
           [] OTHER -> ParseFail

\* the whole text is one JSON value; white space between tokens is skipped
ParseJSON(toks) ==
    LET ts == SelectSeq(toks, LAMBDA tk : tk # WS)
        r == ParseValue(ts, 1)
    IN  IF r.ok /\ r.next = Len(ts) + 1 THEN [ok |-> TRUE, v |-> r.v]
        ELSE [ok |-> FALSE]

----------------------------------------------------------------------------
(* encoding/json: a value tree stored into the Go types of the decision.   *)
(* A null leaves the destination as it is; a value of another kind than    *)
(* the destination's is an UnmarshalTypeError, which Unmarshal returns     *)
(* after reading the rest; a key that names no field is skipped.           *)

NoArgs == <<>>

ZeroToolCall == [Name |-> "", Arguments |-> NoArgs, Reasoning |-> ""]

ZeroResponse ==
    [Message |-> "", ToolCalls |-> <<>>, ShouldCall |-> FALSE,
     Confidence |-> 0, Explanation |-> "", PostProcess |-> ""]

\* a string, bool or float64 destination named field of acc.dst
StoreScalar(acc, field, kind, v) ==
    IF v.k = "null" THEN acc
    ELSE IF v.k # kind THEN [acc EXCEPT !.err = TRUE]
    ELSE CASE kind = "str" -> [acc EXCEPT !.dst[field] = v.s]
           [] kind = "num" -> [acc EXCEPT !.dst[field] = v.n]
           [] kind = "bool" -> [acc EXCEPT !.dst[field] = v.b]

\* a map[string]interface{} destination: every member kept, the last of
\* two equal keys winning
MapOf(members) ==
    [key \in {members[j].key : j \in DOMAIN members} |->
        LET last == CHOOSE j \in DOMAIN members :
                        /\ members[j].key = key
                        /\ \A j2 \in DOMAIN members :
                               members[j2].key = key => j2 <= j
        IN  members[last].val]

StoreArguments(acc, v) ==
    CASE v.k = "null" -> [acc EXCEPT !.dst.Arguments = NoArgs]
      [] v.k = "obj" -> [acc EXCEPT !.dst.Arguments = MapOf(v.el)]
      [] OTHER -> [acc EXCEPT !.err = TRUE]

\* ToolCall (service.go:45-49)
StoreToolCallField(acc, m) ==
    CASE m.key = "name" -> StoreScalar(acc, "Name", "str", m.val)
      [] m.key = "arguments" -> StoreArguments(acc, m.val)
      [] m.key = "reasoning" -> StoreScalar(acc, "Reasoning", "str", m.val)
      [] OTHER -> acc

RECURSIVE StoreToolCallMembers(_, _)
StoreToolCallMembers(members, acc) ==
    IF members = <<>> THEN acc
    ELSE StoreToolCallMembers(Tail(members),
                              StoreToolCallField(acc, Head(members)))

DecodeToolCall(v) ==
    CASE v.k = "null" -> [dst |-> ZeroToolCall, err |-> FALSE]
      [] v.k = "obj" ->
            StoreToolCallMembers(v.el, [dst |-> ZeroToolCall, err |-> FALSE])
      [] OTHER -> [dst |-> ZeroToolCall, err |-> TRUE]

StoreToolCalls(acc, v) ==
    CASE v.k = "null" -> [acc EXCEPT !.dst.ToolCalls = <<>>]
      [] v.k = "arr" ->
            LET each == [j \in DOMAIN v.el |-> DecodeToolCall(v.el[j])] IN
            [dst |-> [acc.dst EXCEPT
                         !.ToolCalls = [j \in DOMAIN v.el |-> each[j].dst]],
             err |-> acc.err \/ \E j \in DOMAIN v.el : each[j].err]
      [] OTHER -> [acc EXCEPT !.err = TRUE]

\* Response (service.go:51-59)
StoreResponseField(acc, m) ==
    CASE m.key = "message" -> StoreScalar(acc, "Message", "str", m.val)
      [] m.key = "tool_calls" -> StoreToolCalls(acc, m.val)
      [] m.key = "should_call" -> StoreScalar(acc, "ShouldCall", "bool", m.val)
      [] m.key = "confidence" -> StoreScalar(acc, "Confidence", "num", m.val)
      [] m.key = "explanation" -> StoreScalar(acc, "Explanation", "str", m.val)
      [] m.key = "post_process" -> StoreScalar(acc, "PostProcess", "str", m.val)
      [] OTHER -> acc

RECURSIVE StoreResponseMembers(_, _)
StoreResponseMembers(members, acc) ==
    IF members = <<>> THEN acc
    ELSE StoreResponseMembers(Tail(members),
                              StoreResponseField(acc, Head(members)))

DecodeResponse(v) ==
    CASE v.k = "null" -> [dst |-> ZeroResponse, err |-> FALSE]
      [] v.k = "obj" ->
            StoreResponseMembers(v.el, [dst |-> ZeroResponse, err |-> FALSE])
      [] OTHER -> [dst |-> ZeroResponse, err |-> TRUE]

\* json.Unmarshal([]byte(content), &response)
Unmarshal(content) ==
    LET p == ParseJSON(content) IN
    IF ~p.ok THEN [dst |-> ZeroResponse, err |-> TRUE]
    ELSE DecodeResponse(p.v)

----------------------------------------------------------------------------
(* Agent.ProcessInput (service.go:196-265), from the chat completion's     *)
(* outcome on: [kind |-> "error"], [kind |-> "no_choices"] or              *)
(* [kind |-> "content", content |-> tokens].                               *)

NoResponse == [none |-> TRUE]
NoError == "nil"

FallbackMessage ==
    "I understand your request, but I had trouble determining the best approach. Could you please rephrase your request?"

FallbackResponse ==
    [Message |-> FallbackMessage, ToolCalls |-> <<>>, ShouldCall |-> FALSE,
     Confidence |-> 1, Explanation |-> "Failed to parse agent decision",
     PostProcess |-> ""]

\* ProcessInput returning the parse error instead of the fallback
ProcessInputSurfacesParseError(completion) ==
    CASE completion.kind = "error" ->
            [resp |-> NoResponse, err |-> "failed to create chat completion"]
      [] completion.kind = "no_choices" ->
            [resp |-> NoResponse, err |-> "no response choices returned"]
      [] completion.kind = "content" ->
            LET u == Unmarshal(TrimSpace(completion.content)) IN
            IF u.err THEN [resp |-> NoResponse, err |-> "failed to parse response"]
            ELSE [resp |-> u.dst, err |-> NoError]

\* ProcessInput returning a copy of the decision without its post_process
ProcessInputDropsPostProcess(completion) ==
    CASE completion.kind = "error" ->
            [resp |-> NoResponse, err |-> "failed to create chat completion"]
      [] completion.kind = "no_choices" ->
            [resp |-> NoResponse, err |-> "no response choices returned"]
      [] completion.kind = "content" ->
            LET u == Unmarshal(TrimSpace(completion.content)) IN
            IF u.err THEN [resp |-> FallbackResponse, err |-> NoError]
            ELSE [resp |-> [u.dst EXCEPT !.PostProcess = ""], err |-> NoError]

\* ProcessInput taking a completion without choices for a malformed reply
ProcessInputNoChoicesFallback(completion) ==
    CASE completion.kind = "error" ->
            [resp |-> NoResponse, err |-> "failed to create chat completion"]
      [] completion.kind = "no_choices" ->
            [resp |-> FallbackResponse, err |-> NoError]
      [] completion.kind = "content" ->
            LET u == Unmarshal(TrimSpace(completion.content)) IN
            IF u.err THEN [resp |-> FallbackResponse, err |-> NoError]
            ELSE [resp |-> u.dst, err |-> NoError]

ProcessInput(completion) ==
    CASE completion.kind = "error" ->
            [resp |-> NoResponse, err |-> "failed to create chat completion"]
      [] completion.kind = "no_choices" ->
            [resp |-> NoResponse, err |-> "no response choices returned"]
      [] completion.kind = "content" ->
            LET u == Unmarshal(TrimSpace(completion.content)) IN
            IF u.err THEN [resp |-> FallbackResponse, err |-> NoError]
            ELSE [resp |-> u.dst, err |-> NoError]


----------------------------------------------------------------------------
(* Agent.ValidateToolCall and Agent.validateParameterType                  *)
(* (service.go:312-370).  A ToolDefinition is [Name, Parameters]; its      *)
(* Parameters is NoSchema (a nil *jsonschema.Schema) or                    *)
(* [Properties |-> name -> [Type], Required |-> sequence of names].        *)

NoSchema == [nil |-> TRUE]

Ok == [kind |-> "ok"]
Panic == [kind |-> "panic"]
UnknownTool(name) == [kind |-> "unknown_tool", tool |-> name]
MissingParameter(param, name) ==
    [kind |-> "missing_parameter", param |-> param, tool |-> name]
TypeMismatch(param, expected) ==
    [kind |-> "type_mismatch", param |-> param, expected |-> expected]

validateParameterTypeNoBoolean(paramName, value, expectedType) ==
    CASE expectedType = "string" ->
            IF value.k = "str" THEN Ok ELSE TypeMismatch(paramName, "a string")
      [] expectedType = "integer" ->
            IF value.k = "num" THEN Ok ELSE TypeMismatch(paramName, "an integer")
      [] expectedType = "number" ->
            IF value.k = "num" THEN Ok ELSE TypeMismatch(paramName, "a number")
      [] OTHER -> Ok

\* validateParameterType asking a whole number of an integer parameter
validateParameterTypeWholeInteger(paramName, value, expectedType) ==
    CASE expectedType = "string" ->
            IF value.k = "str" THEN Ok ELSE TypeMismatch(paramName, "a string")
      [] expectedType = "integer" ->
            IF value.k = "num" /\ value.n % 10 = 0
            THEN Ok ELSE TypeMismatch(paramName, "an integer")
      [] expectedType = "number" ->
            IF value.k = "num" THEN Ok ELSE TypeMismatch(paramName, "a number")
      [] expectedType = "boolean" ->
            IF value.k = "bool" THEN Ok ELSE TypeMismatch(paramName, "a boolean")
      [] OTHER -> Ok

\* the switch of validateParameterType: the error, or Ok
validateParameterType(paramName, value, expectedType) ==
    CASE expectedType = "string" ->
            IF value.k = "str" THEN Ok ELSE TypeMismatch(paramName, "a string")
      [] expectedType = "integer" ->
            IF value.k = "num" THEN Ok ELSE TypeMismatch(paramName, "an integer")
      [] expectedType = "number" ->
            IF value.k = "num" THEN Ok ELSE TypeMismatch(paramName, "a number")
      [] expectedType = "boolean" ->
            IF value.k = "bool" THEN Ok ELSE TypeMismatch(paramName, "a boolean")
      [] OTHER -> Ok

\* FindTool leaving the last tool looked at in place when none matches
FindToolKeepsLast(registry, name) ==
    IF \E j \in DOMAIN registry : registry[j].Name = name
    THEN CHOOSE j \in DOMAIN registry :
            /\ registry[j].Name = name
            /\ \A j2 \in DOMAIN registry : registry[j2].Name = name => j <= j2
    ELSE Len(registry)

\* the first tool of the registry with the call's name, 0 when there is none
FindTool(registry, name) ==
    IF \E j \in DOMAIN registry : registry[j].Name = name
    THEN CHOOSE j \in DOMAIN registry :
            /\ registry[j].Name = name
            /\ \A j2 \in DOMAIN registry : registry[j2].Name = name => j <= j2
    ELSE 0

\* FirstMissing looking at the first required name only
FirstMissingChecksHeadOnly(required, arguments) ==
    IF required # <<>> /\ required[1] \notin DOMAIN arguments THEN 1 ELSE 0

\* FirstMissing taking a key with a null value for a missing one
FirstMissingCountsNull(required, arguments) ==
    LET absent(j) == \/ required[j] \notin DOMAIN arguments
                     \/ arguments[required[j]] = JNull
    IN  IF \E j \in DOMAIN required : absent(j)
        THEN CHOOSE j \in DOMAIN required :
                /\ absent(j)
                /\ \A j2 \in DOMAIN required : absent(j2) => j <= j2
        ELSE 0

\* the first name of required that is no key of the arguments, 0 when none
FirstMissing(required, arguments) ==
    IF \E j \in DOMAIN required : required[j] \notin DOMAIN arguments
    THEN CHOOSE j \in DOMAIN required :
            /\ required[j] \notin DOMAIN arguments
            /\ \A j2 \in DOMAIN required :
                   required[j2] \notin DOMAIN arguments => j <= j2
    ELSE 0

\* the type errors the loop over the arguments can meet; Go ranges over a
\* map in an unspecified order and the loop returns the first it meets
TypeErrors(params, arguments) ==
    {validateParameterType(p, arguments[p], params[p].Type) :
        p \in DOMAIN arguments \cap DOMAIN params} \ {Ok}

ValidateToolCallStrictKeys(registry, call) ==
    LET at == FindTool(registry, call.Name) IN
    IF at = 0 THEN {UnknownTool(call.Name)}
    ELSE LET schema == registry[at].Parameters IN
         IF schema = NoSchema THEN {Panic}
         ELSE LET missing == FirstMissing(schema.Required, call.Arguments) IN
              IF missing # 0
              THEN {MissingParameter(schema.Required[missing], call.Name)}
              ELSE LET errs == TypeErrors(schema.Properties, call.Arguments)
                       extra == DOMAIN call.Arguments \ DOMAIN schema.Properties
                   IN  IF errs # {} THEN errs
                       ELSE IF extra # {}
                            THEN {TypeMismatch(p, "declared") : p \in extra}
                            ELSE {Ok}

\* the values ValidateToolCall can return for the call, as a set
ValidateToolCall(registry, call) ==
    LET at == FindTool(registry, call.Name) IN
    IF at = 0 THEN {UnknownTool(call.Name)}
    ELSE LET schema == registry[at].Parameters IN
         IF schema = NoSchema THEN {Panic}
         ELSE LET missing == FirstMissing(schema.Required, call.Arguments) IN
              IF missing # 0
              THEN {MissingParameter(schema.Required[missing], call.Name)}
              ELSE LET errs == TypeErrors(schema.Properties, call.Arguments) IN
                   IF errs # {} THEN errs ELSE {Ok}


----------------------------------------------------------------------------
(* What the language model can reply.  A reply in the shape the system     *)
(* prompt asks for (service.go:289-306) is the text of a JSON object with  *)
(* the members message, tool_calls, should_call, confidence, explanation   *)
(* and post_process.                                                       *)

RECURSIVE EncodeValue(_)
RECURSIVE EncodeMembers(_)
RECURSIVE EncodeElements(_)

\* the text of a value tree
EncodeValue(v) ==
    CASE v.k = "str" -> <<TStr(v.s)>>
      [] v.k = "num" -> <<TNum(v.n)>>
      [] v.k = "bool" -> IF v.b THEN <<TTRUE>> ELSE <<TFALSE>>
      [] v.k = "null" -> <<TNULL>>
      [] v.k = "arr" -> <<LBRACK>> \o EncodeElements(v.el) \o <<RBRACK>>
      [] v.k = "obj" -> <<LBRACE>> \o EncodeMembers(v.el) \o <<RBRACE>>

EncodeMembers(ms) ==
    IF ms = <<>> THEN <<>>
    ELSE <<TStr(Head(ms).key), COLON>> \o EncodeValue(Head(ms).val)
         \o (IF Len(ms) > 1 THEN <<COMMA>> \o EncodeMembers(Tail(ms)) ELSE <<>>)

EncodeElements(es) ==
    IF es = <<>> THEN <<>>
    ELSE EncodeValue(Head(es))
         \o (IF Len(es) > 1 THEN <<COMMA>> \o EncodeElements(Tail(es)) ELSE <<>>)

\* the keys of an argument map in some fixed order
RECURSIVE KeySeq(_)
KeySeq(keys) ==
    IF keys = {} THEN <<>>
    ELSE LET key == CHOOSE x \in keys : TRUE IN <<key>> \o KeySeq(keys \ {key})

ArgumentsTree(arguments) ==
    LET keys == KeySeq(DOMAIN arguments) IN
    JObj([j \in DOMAIN keys |-> [key |-> keys[j], val |-> arguments[keys[j]]]])

ToolCallTree(call) ==
    JObj(<<[key |-> "name", val |-> JStr(call.Name)],
           [key |-> "arguments", val |-> ArgumentsTree(call.Arguments)],
           [key |-> "reasoning", val |-> JStr(call.Reasoning)]>>)

ContractFields ==
    <<"message", "tool_calls", "should_call", "confidence", "explanation",
      "post_process">>

\* the fields the contract does not mark optional
RequiredFields ==
    {"message", "tool_calls", "should_call", "confidence", "explanation"}

FieldTree(d, field) ==
    CASE field = "message" -> JStr(d.Message)
      [] field = "tool_calls" ->
            JArr([j \in DOMAIN d.ToolCalls |-> ToolCallTree(d.ToolCalls[j])])
      [] field = "should_call" -> JBool(d.ShouldCall)
      [] field = "confidence" -> JNum(d.Confidence)
      [] field = "explanation" -> JStr(d.Explanation)
      [] field = "post_process" -> JStr(d.PostProcess)

\* the object holding the given fields of decision d, in the contract's order
DecisionTree(d, fields) ==
    LET kept == SelectSeq(ContractFields, LAMBDA f : f \in fields) IN
    JObj([j \in DOMAIN kept |-> [key |-> kept[j], val |-> FieldTree(d, kept[j])]])

AllFields == {ContractFields[j] : j \in DOMAIN ContractFields}

EncodeDecision(d) == EncodeValue(DecisionTree(d, AllFields))


----------------------------------------------------------------------------
(* The tools a server can list, and the calls a decision can propose.      *)

\* scrape_url as registered in cmd (main.go:353-371)
ScrapeURLTool ==
    [Name |-> "scrape_url",
     Description |-> "Scrape content from a single URL and extract text, title, and metadata",
     Parameters |->
        [Properties |-> [url |-> [Type |-> "string"],
                         selector |-> [Type |-> "string"]],
         Required |-> <<"url">>]]

\* summarize_content, its schema that of SummarizeParams (main.go:721-724)
SummarizeTool ==
    [Name |-> "summarize_content",
     Description |-> "Generate a summary from text content using LLM",
     Parameters |->
        [Properties |-> [content |-> [Type |-> "string"],
                         max_length |-> [Type |-> "integer"]],
         Required |-> <<"content">>]]

GoodScrape ==
    [Name |-> "scrape_url",
     Arguments |-> [url |-> JStr("https://example.com")],
     Reasoning |-> "fetch the page"]

\* every required parameter, a typed optional one and one the schema lacks
GoodSummarize ==
    [Name |-> "summarize_content",
     Arguments |-> [content |-> JStr("Go is a programming language"),
                    max_length |-> JNum(500),
                    style |-> JNull],
     Reasoning |-> "shorten the text"]

UnknownCall ==
    [Name |-> "search_web",
     Arguments |-> [query |-> JStr("mcp")],
     Reasoning |-> "look it up"]

MissingCall ==
    [Name |-> "scrape_url",
     Arguments |-> [selector |-> JStr("h1")],
     Reasoning |-> "fetch the heading"]

MistypedCall ==
    [Name |-> "summarize_content",
     Arguments |-> [content |-> JStr("text"), max_length |-> JStr("short")],
     Reasoning |-> "shorten it"]

CallPool == {GoodScrape, GoodSummarize, UnknownCall, MissingCall, MistypedCall}

CallLists == UNION {[1..n -> CallPool] : n \in 0..MaxCalls}

\* the decisions a reply can carry
Decisions ==
    [Message : {"I will fetch that for you"},
     ToolCalls : CallLists,
     ShouldCall : BOOLEAN,
     Confidence : {0, 9},
     Explanation : {"the request names a page"},
     PostProcess : {"", "Summarize"}]

\* the decisions whose text is also damaged in the ways below
SampleDecisions ==
    {d \in Decisions :
        /\ d.ShouldCall /\ d.Confidence = 9 /\ d.PostProcess = "Summarize"
        /\ d.ToolCalls \in {<<>>, <<GoodScrape>>, <<GoodScrape, GoodSummarize>>}}

Prefixes(toks) == {SubSeq(toks, 1, n) : n \in 0..(Len(toks) - 1)}

Content(toks, shape, d) ==
    [kind |-> "content", content |-> toks, shape |-> shape, meant |-> d]

WellFormedReplies ==
    {Content(EncodeDecision(d), "well_formed", d) : d \in Decisions}
    \cup {Content(<<WS>> \o EncodeDecision(d) \o <<WS, WS>>, "well_formed", d) :
            d \in SampleDecisions}
    \cup {Content(EncodeValue(DecisionTree(d, RequiredFields)), "well_formed", d) :
            d \in {x \in Decisions : x.PostProcess = ""}}

TruncatedReplies ==
    UNION {{Content(toks, "truncated", d) : toks \in Prefixes(EncodeDecision(d))} :
            d \in SampleDecisions}

NonJSONReplies ==
    {Content(<<TWord("Sure, I can help with that.")>>, "non_json", NoResponse)}
    \cup {Content(<<TWord("Here is my decision:"), WS>> \o EncodeDecision(d),
                  "non_json", d) : d \in SampleDecisions}
    \cup {Content(EncodeDecision(d) \o <<WS, TWord("Let me know.")>>,
                  "non_json", d) : d \in SampleDecisions}

FencedReplies ==
    {Content(<<FENCE, TWord("json"), WS>> \o EncodeDecision(d) \o <<WS, FENCE>>,
             "fenced", d) : d \in SampleDecisions}

\* a JSON object that lacks at least one required field
MissingFieldReplies ==
    UNION {{Content(EncodeValue(DecisionTree(d, fields)), "missing_fields", d) :
                fields \in {f \in SUBSET AllFields : ~(RequiredFields \subseteq f)}} :
            d \in SampleDecisions}

\* JSON that is no object, or whose member is of another kind than its field
WrongKindReplies ==
    {Content(EncodeValue(v), "wrong_kind", NoResponse) :
        v \in {JArr(<<>>), JStr("ok"), JNum(10), JBool(TRUE)}}
    \cup {Content(EncodeValue(JObj(<<[key |-> "message", val |-> JStr("m")],
                                     [key |-> "should_call", val |-> JBool(TRUE)],
                                     [key |-> "confidence", val |-> JStr("high")]>>)),
                  "wrong_kind", NoResponse)}

\* a well-formed decision whose confidence is above 1 or below 0
OutOfRangeReplies ==
    {Content(EncodeDecision([d EXCEPT !.Confidence = c]), "out_of_range",
             [d EXCEPT !.Confidence = c]) :
        d \in SampleDecisions, c \in {15, -5}}

NoCompletion == [kind |-> "none"]

Completions ==
    {[kind |-> "error"], [kind |-> "no_choices"]}
    \cup WellFormedReplies \cup TruncatedReplies \cup NonJSONReplies
    \cup FencedReplies \cup MissingFieldReplies \cup WrongKindReplies
    \cup OutOfRangeReplies

\* what Transport.CallTool can answer
CallToolOutcomes ==
    {[kind |-> "error"],
     [kind |-> "result", Success |-> FALSE, Content |-> <<>>, Error |-> "scrape failed"],
     [kind |-> "result", Success |-> TRUE, Content |-> <<>>, Error |-> ""],
     [kind |-> "result", Success |-> TRUE, Content |-> <<"A", "B">>, Error |-> ""]}


----------------------------------------------------------------------------
(* AgentCLI.executeToolCall (main.go:164-182): the text and the error it   *)
(* returns for an answer of the transport.  A text is the sequence of its  *)
(* pieces.                                                                 *)

RECURSIVE Join(_, _)
Join(parts, sep) ==
    IF Len(parts) <= 1 THEN parts
    ELSE <<Head(parts), sep>> \o Join(Tail(parts), sep)

executeToolCall(answer) ==
    IF answer.kind = "error"
    THEN [text |-> <<>>, err |-> "MCP tool call failed"]
    ELSE IF ~answer.Success
    THEN [text |-> <<>>, err |-> "tool execution failed"]
    ELSE IF Len(answer.Content) > 0
    THEN [text |-> Join(answer.Content, "\n"), err |-> NoError]
    ELSE [text |-> <<"Tool executed successfully">>, err |-> NoError]

----------------------------------------------------------------------------
(* NewAgent of internal/agent (service.go:62-92) and the fetch of the      *)
(* registry from the tool server.                                          *)

\* the tool of the server's list a ToolDefinition is made from
McpTool(d) ==
    [Name |-> d.Name, Description |-> d.Description, InputSchema |-> d.Parameters]

\* what ListTools can answer: an error, or the server's tools
ToolLists ==
    {<<>>,
     <<McpTool(ScrapeURLTool), McpTool(SummarizeTool)>>,
     <<McpTool(SummarizeTool)>>}

ListToolsOutcomes ==
    {[kind |-> "error"]} \cup {[kind |-> "tools", Tools |-> l] : l \in ToolLists}

NotAttempted == [kind |-> "not_attempted"]

\* what Connect can answer ensureMCPSession
ConnectOutcomes == {[kind |-> "error"], [kind |-> "session"]}

Configs == {[MCPServer |-> ""], [MCPServer |-> "http://localhost:8080/sse"]}

\* the ways a construction can go: Connect is attempted when a server is
\* configured, ListTools when the connection stands
Constructions ==
    {b \in [config : Configs,
            connect : ConnectOutcomes \cup {NotAttempted},
            listing : ListToolsOutcomes \cup {NotAttempted}] :
        /\ (b.connect = NotAttempted) <=> (b.config.MCPServer = "")
        /\ (b.listing = NotAttempted) <=> (b.connect.kind # "session")}

\* NewAgent has not been called
NotBuilt == [kind |-> "not_built"]

\* the ToolDefinition made from a tool of the list (service.go:109-115)
ToToolDefinition(t) ==
    [Name |-> t.Name, Description |-> t.Description, Parameters |-> t.InputSchema]

\* fetchToolsFromMCP (service.go:98-119): the agent's tools afterwards and
\* the error returned
fetchToolsFromMCP(current, connect, listing) ==
    IF connect.kind # "session"
    THEN [tools |-> current, err |-> "failed to connect to MCP server"]
    ELSE IF listing.kind # "tools"
    THEN [tools |-> current, err |-> "failed to list tools from MCP server"]
    ELSE [tools |-> [j \in DOMAIN listing.Tools |-> ToToolDefinition(listing.Tools[j])],
          err |-> NoError]

\* NewAgent handing on whatever the failed fetch left, or a built-in tool
NewAgentWithDefaultTool(config, connect, listing) ==
    IF config.MCPServer # ""
    THEN fetchToolsFromMCP(<<ScrapeURLTool>>, connect, listing).tools
    ELSE <<ScrapeURLTool>>

\* the tools of the agent NewAgent returns (service.go:62-92)
NewAgent(config, connect, listing) ==
    IF config.MCPServer # ""
    THEN LET r == fetchToolsFromMCP(<<>>, connect, listing) IN
         IF r.err # NoError THEN <<>> ELSE r.tools
    ELSE <<>>

MaxCallers == 3

\* the goroutines that use the agent's session at the same time
Callers == 1..MaxCallers

\* Agent.mcpSession is nil
NoSession == [owner |-> "none", n |-> 0]

\* the client session main connects before it builds the CLI
\* (main.go:249-253), kept in AgentCLI.mcpClient
MainSession == [owner |-> "main", n |-> 1]

\* the session a successful Connect of the agent's client returns: a new
\* one each time
NewSession(made) ==
    [owner |-> "agent", n |-> Cardinality({s \in made : s.owner = "agent"}) + 1]

\* ensureMCPSession connecting whether or not a session stands
ensureMCPSessionReconnects(session, config, connect, made) ==
    IF config.MCPServer = ""
    THEN [session |-> NoSession, err |-> "MCP server not configured", made |-> {}]
    ELSE IF connect.kind # "session"
    THEN [session |-> NoSession, err |-> "failed to connect to MCP server",
          made |-> {}]
    ELSE [session |-> NewSession(made), err |-> NoError, made |-> {NewSession(made)}]

\* ensureMCPSession keeping the outcome of a failed Connect in the field
ensureMCPSessionKeepsFailure(session, config, connect, made) ==
    IF session # NoSession
    THEN [session |-> session, err |-> NoError, made |-> {}]
    ELSE IF config.MCPServer = ""
    THEN [session |-> NoSession, err |-> "MCP server not configured", made |-> {}]
    ELSE IF connect.kind # "session"
    THEN [session |-> [owner |-> "agent", n |-> 0],
          err |-> "failed to connect to MCP server", made |-> {}]
    ELSE [session |-> NewSession(made), err |-> NoError, made |-> {NewSession(made)}]

\* ensureMCPSession (service.go:121-136): the session returned, which is
\* Agent.mcpSession afterwards, the error, and the session Connect made
ensureMCPSession(session, config, connect, made) ==
    IF session # NoSession
    THEN [session |-> session, err |-> NoError, made |-> {}]
    ELSE IF config.MCPServer = ""
    THEN [session |-> NoSession, err |-> "MCP server not configured", made |-> {}]
    ELSE IF connect.kind # "session"
    THEN [session |-> NoSession, err |-> "failed to connect to MCP server",
          made |-> {}]
    ELSE [session |-> NewSession(made), err |-> NoError, made |-> {NewSession(made)}]

----------------------------------------------------------------------------
(* AgentCLI.processUserInput (main.go:114-162) on an agent built by        *)
(* NewAgent.  pc is "new" before NewAgent has run, "idle" before the call  *)
(* of processUserInput, "deciding" while the chat                          *)
(* completion of ProcessInput is in flight, "loop" at the head of the      *)
(* range over response.ToolCalls, "calling" while CallTool is in flight,   *)
(* "returned" after the return and "crashed" after a panic.                *)

\* the transport has not answered the call yet
Pending == [kind |-> "pending"]

\* ValidateToolCall has not returned
NotCalled == [kind |-> "not_called"]

\* ProcessQuery has not returned
NotReturned == [kind |-> "not_returned"]

\* RefreshTools has not been called
NotListed == [outcome |-> [kind |-> "none"], before |-> <<>>]

\* no context has been built
NoContext == <<>>

ValIdle == toolCall = ZeroToolCall /\ valErr = NotCalled
RaceIdle ==
    /\ gpc = [g \in Callers |-> "idle"]
    /\ glocal = [g \in Callers |-> NoSession]
ScrapeIdle ==
    /\ spc = "off" /\ nurls = 0 /\ spawned = 0 /\ wpc = <<>> /\ sem = 0
    /\ errChan = <<>> /\ sresults = <<>> /\ serrors = <<>> /\ received = 0
    /\ sret = NotReturned /\ scraped = <<>>
AuxIdle == RaceIdle /\ ScrapeIdle
SessIdle ==
    /\ mcpSession = NoSession /\ sessions = {} /\ open = {} /\ remote = <<>>
QueryIdle ==
    /\ qpc = "off" /\ qTools = <<>> /\ qReply = NoCompletion /\ qCalls = <<>>
    /\ qListed = NotListed
    /\ qIdx = 0 /\ qResults = <<>> /\ qSent = <<>> /\ qContext = NoContext
    /\ qAnswer = NoCompletion /\ qRet = NotReturned
PostIdle ==
    /\ ppc = "off" /\ ppIn = [instruction |-> <<>>, content |-> <<>>]
    /\ ppCalls = 0 /\ ppReply = NoCompletion /\ ppRet = NotReturned
CliIdle ==
    /\ pc = "off" /\ reply = NoCompletion /\ response = NoResponse /\ idx = 0
    /\ verdicts = <<>> /\ sent = <<>> /\ llmCalls = 0 /\ ret = "none"

InitCLI ==
    /\ tools = <<>> /\ built = NotBuilt
    /\ pc = "new" /\ reply = NoCompletion /\ response = NoResponse /\ idx = 0
    /\ verdicts = <<>> /\ sent = <<>> /\ llmCalls = 0 /\ ret = "none"
    /\ mcpSession = NoSession /\ sessions = {MainSession}
    /\ open = {MainSession} /\ remote = <<>>
    /\ ValIdle /\ QueryIdle /\ PostIdle /\ AuxIdle

\* NewAgent returns the agent the CLI works with; with a server configured
\* its fetch of the tools went through ensureMCPSession
Construct ==
    /\ pc = "new"
    /\ \E b \in Constructions :
        /\ tools' = NewAgent(b.config, b.connect, b.listing)
        /\ built' = b
        /\ IF b.config.MCPServer # ""
           THEN LET e == ensureMCPSession(mcpSession, b.config, b.connect, sessions) IN
                /\ mcpSession' = e.session
                /\ sessions' = sessions \cup e.made
                /\ open' = open \cup e.made
           ELSE UNCHANGED <<mcpSession, sessions, open>>
    /\ pc' = "idle"
    /\ UNCHANGED <<auxVars, remote, reply, response, idx, verdicts, sent, llmCalls, ret,
                   valVars, queryVars, postVars>>

\* ProcessInput is entered and issues its chat completion (main.go:119,
\* service.go:233)
Ask ==
    /\ pc = "idle"
    /\ pc' = "deciding"
    /\ llmCalls' = llmCalls + 1
    /\ UNCHANGED <<auxVars, tools, built, sessVars, postVars, reply, response, idx, verdicts, sent, ret,
                   valVars, queryVars>>

\* where the loop goes after the call at idx: the next call, or the return
\* after the last (main.go:140, 160-161)
AfterCall ==
    IF idx < Len(response.ToolCalls)
    THEN pc' = "loop" /\ idx' = idx + 1 /\ ret' = ret
    ELSE pc' = "returned" /\ idx' = idx + 1 /\ ret' = NoError

\* Decide taking should_call with an empty list of calls for an error
DecideEmptyListIsError ==
    /\ pc = "deciding"
    /\ \E completion \in Completions :
        LET r == ProcessInput(completion) IN
        /\ reply' = completion
        /\ response' = r.resp
        /\ IF r.err # NoError
           THEN pc' = "returned" /\ ret' = "agent processing failed" /\ idx' = idx
           ELSE IF ~r.resp.ShouldCall
           THEN pc' = "returned" /\ ret' = NoError /\ idx' = idx
           ELSE IF Len(r.resp.ToolCalls) = 0
           THEN pc' = "returned" /\ ret' = "no tool calls" /\ idx' = idx
           ELSE pc' = "loop" /\ ret' = ret /\ idx' = 1
    /\ UNCHANGED <<auxVars, tools, built, sessVars, postVars, verdicts, sent, llmCalls, valVars,
                   queryVars>>

\* Decide asking for a second completion when the first reply did not
\* parse
DecideAsksAgain ==
    /\ pc = "deciding"
    /\ \E completion \in Completions :
        LET r == ProcessInput(completion) IN
        /\ reply' = completion
        /\ IF r.err = NoError /\ r.resp = FallbackResponse /\ llmCalls = 1
           THEN /\ llmCalls' = llmCalls + 1
                /\ UNCHANGED <<pc, response, idx, ret>>
           ELSE /\ llmCalls' = llmCalls
                /\ response' = r.resp
                /\ IF r.err # NoError
                   THEN pc' = "returned" /\ ret' = "agent processing failed" /\ idx' = idx
                   ELSE IF ~r.resp.ShouldCall \/ Len(r.resp.ToolCalls) = 0
                   THEN pc' = "returned" /\ ret' = NoError /\ idx' = idx
                   ELSE pc' = "loop" /\ ret' = ret /\ idx' = 1
    /\ UNCHANGED <<auxVars, tools, built, sessVars, postVars, verdicts, sent, valVars, queryVars>>

\* Decide entering the loop whenever the list of calls is not empty
DecideIgnoresShouldCall ==
    /\ pc = "deciding"
    /\ \E completion \in Completions :
        LET r == ProcessInput(completion) IN
        /\ reply' = completion
        /\ response' = r.resp
        /\ IF r.err # NoError
           THEN pc' = "returned" /\ ret' = "agent processing failed" /\ idx' = idx
           ELSE IF Len(r.resp.ToolCalls) = 0
           THEN pc' = "returned" /\ ret' = NoError /\ idx' = idx
           ELSE pc' = "loop" /\ ret' = ret /\ idx' = 1
    /\ UNCHANGED <<auxVars, tools, built, sessVars, postVars, verdicts, sent, llmCalls,
                   valVars, queryVars>>

\* the completion arrives; ProcessInput returns and processUserInput runs
\* up to the loop (main.go:119-138)
Decide ==
    /\ pc = "deciding"
    /\ \E completion \in Completions :
        LET r == ProcessInput(completion) IN
        /\ reply' = completion
        /\ response' = r.resp
        /\ IF r.err # NoError
           THEN pc' = "returned" /\ ret' = "agent processing failed" /\ idx' = idx
           ELSE IF ~r.resp.ShouldCall \/ Len(r.resp.ToolCalls) = 0
           THEN pc' = "returned" /\ ret' = NoError /\ idx' = idx
           ELSE pc' = "loop" /\ ret' = ret /\ idx' = 1
    /\ UNCHANGED <<auxVars, tools, built, sessVars, postVars, verdicts, sent, llmCalls, valVars, queryVars>>

\* Validate returning from processUserInput at the first invalid call
ValidateAbortsBatch ==
    /\ pc = "loop"
    /\ \E e \in ValidateToolCall(tools, response.ToolCalls[idx]) :
        CASE e = Ok ->
                /\ sent' = Append(sent,
                        [call |-> idx, params |-> response.ToolCalls[idx],
                         answer |-> Pending])
                /\ pc' = "calling"
                /\ UNCHANGED <<idx, verdicts, ret>>
          [] e = Panic ->
                /\ pc' = "crashed"
                /\ UNCHANGED <<idx, verdicts, sent, ret>>
          [] OTHER ->
                /\ verdicts' = Append(verdicts,
                        [call |-> idx, outcome |-> "validation_failed", err |-> e])
                /\ pc' = "returned" /\ idx' = idx /\ ret' = NoError
                /\ UNCHANGED sent
    /\ UNCHANGED <<auxVars, tools, built, sessVars, postVars, reply, response, llmCalls, valVars, queryVars>>

\* one iteration up to the dispatch: the call is validated, skipped when
\* invalid, handed to the transport when valid (main.go:140-151)
Validate ==
    /\ pc = "loop"
    /\ \E e \in ValidateToolCall(tools, response.ToolCalls[idx]) :
        CASE e = Ok ->
                /\ sent' = Append(sent,
                        [call |-> idx, params |-> response.ToolCalls[idx],
                         answer |-> Pending])
                /\ pc' = "calling"
                /\ UNCHANGED <<idx, verdicts, ret>>
          [] e = Panic ->
                /\ pc' = "crashed"
                /\ UNCHANGED <<idx, verdicts, sent, ret>>
          [] OTHER ->
                /\ verdicts' = Append(verdicts,
                        [call |-> idx, outcome |-> "validation_failed", err |-> e])
                /\ AfterCall
                /\ UNCHANGED sent
    /\ UNCHANGED <<auxVars, tools, built, sessVars, postVars, reply, response, llmCalls, valVars, queryVars>>

\* Execute returning from processUserInput when the transport fails
ExecuteAbortsOnTransportError ==
    /\ pc = "calling"
    /\ \E answer \in CallToolOutcomes :
        LET r == executeToolCall(answer) IN
        /\ verdicts' = Append(verdicts,
                IF r.err # NoError
                THEN [call |-> idx, outcome |-> "execution_failed", err |-> r.err]
                ELSE [call |-> idx, outcome |-> "result", text |-> r.text])
        /\ sent' = [sent EXCEPT ![Len(sent)].answer = answer]
        /\ IF answer.kind = "error"
           THEN pc' = "returned" /\ idx' = idx /\ ret' = NoError
           ELSE AfterCall
    /\ UNCHANGED <<auxVars, tools, built, sessVars, postVars, reply, response, llmCalls, valVars,
                   queryVars>>

\* Execute ending the process when the transport fails, before the request
\* has returned
ExecuteTransportErrorIsFatal ==
    /\ pc = "calling"
    /\ \E answer \in CallToolOutcomes :
        LET r == executeToolCall(answer) IN
        /\ sent' = [sent EXCEPT ![Len(sent)].answer = answer]
        /\ IF answer.kind = "error"
           THEN pc' = "crashed" /\ UNCHANGED <<idx, verdicts, ret>>
           ELSE /\ verdicts' = Append(verdicts,
                        IF r.err # NoError
                        THEN [call |-> idx, outcome |-> "execution_failed", err |-> r.err]
                        ELSE [call |-> idx, outcome |-> "result", text |-> r.text])
                /\ AfterCall
    /\ UNCHANGED <<auxVars, tools, built, sessVars, postVars, reply, response, llmCalls, valVars,
                   queryVars>>

\* Execute handing a call the transport failed on to the transport once
\* more
ExecuteRetriesOnce ==
    /\ pc = "calling"
    /\ \E answer \in CallToolOutcomes :
        LET r == executeToolCall(answer)
            first == Cardinality({s \in DOMAIN sent : sent[s].call = idx}) = 1
        IN
        /\ sent' = [sent EXCEPT ![Len(sent)].answer = answer]
        /\ IF answer.kind = "error" /\ first
           THEN pc' = "loop" /\ UNCHANGED <<idx, verdicts, ret>>
           ELSE /\ verdicts' = Append(verdicts,
                        IF r.err # NoError
                        THEN [call |-> idx, outcome |-> "execution_failed", err |-> r.err]
                        ELSE [call |-> idx, outcome |-> "result", text |-> r.text])
                /\ AfterCall
    /\ UNCHANGED <<auxVars, tools, built, sessVars, postVars, reply, response, llmCalls, valVars,
                   queryVars>>

\* the transport answers; the rest of the iteration (main.go:151-158)
Execute ==
    /\ pc = "calling"
    /\ \E answer \in CallToolOutcomes :
        LET r == executeToolCall(answer) IN
        /\ verdicts' = Append(verdicts,
                IF r.err # NoError
                THEN [call |-> idx, outcome |-> "execution_failed", err |-> r.err]
                ELSE [call |-> idx, outcome |-> "result", text |-> r.text])
        /\ sent' = [sent EXCEPT ![Len(sent)].answer = answer]
    /\ AfterCall
    /\ UNCHANGED <<auxVars, tools, built, sessVars, postVars, reply, response, llmCalls, valVars, queryVars>>

NextCLI == Construct \/ Ask \/ Decide \/ Validate \/ Execute

SpecCLI == InitCLI /\ [][NextCLI]_vars

\* the goroutine of processUserInput keeps running, and each blocking call
\* it waits for (the chat completion, the transport's CallTool) returns
SpecCLILive ==
    /\ InitCLI /\ [][NextCLI]_vars
    /\ WF_vars(Decide) /\ WF_vars(Validate) /\ WF_vars(Execute)

----------------------------------------------------------------------------
(* The life of one agent and its sessions: NewAgent, then calls of         *)
(* Agent.CallToolRemote (service.go:138-146) one after the other, then the *)
(* shutdown of the program by AgentCLI.Close (main.go:106-112).  pc is     *)
(* "remote" once CallToolRemote has been called and "closed" after the     *)
(* shutdown.                                                               *)

MaxOps == 3

\* the tool calls handed to CallToolRemote
RemoteCalls == {GoodScrape, GoodSummarize}

\* what CallToolRemote returns: the error of ensureMCPSession, or what the
\* session's CallTool answered
CallToolRemote(e, call, answer) ==
    IF e.err # NoError
    THEN [kind |-> "error", err |-> e.err, session |-> NoSession]
    ELSE [kind |-> "answered", session |-> e.session,
          params |-> [Name |-> call.Name, Arguments |-> call.Arguments],
          answer |-> answer]

\* one call of CallToolRemote from entry to return
RemoteCall ==
    /\ pc \in {"idle", "remote"}
    /\ pc' = "remote"
    /\ Len(remote) < MaxOps
    /\ \E call \in RemoteCalls, connect \in ConnectOutcomes, answer \in CallToolOutcomes :
        LET e == ensureMCPSession(mcpSession, built.config, connect, sessions) IN
        /\ mcpSession' = e.session
        /\ sessions' = sessions \cup e.made
        /\ open' = open \cup e.made
        /\ remote' = Append(remote, CallToolRemote(e, call, answer))
    /\ UNCHANGED <<auxVars, tools, built, reply, response, idx, verdicts, sent, llmCalls, ret,
                   valVars, queryVars, postVars>>

\* the program shuts down: the deferred cli.Close() of main closes the
\* session held in AgentCLI.mcpClient
Shutdown ==
    /\ pc \in {"idle", "remote"}
    /\ pc' = "closed"
    /\ open' = open \ {MainSession}
    /\ UNCHANGED <<auxVars, tools, built, mcpSession, sessions, remote, reply, response, idx,
                   verdicts, sent, llmCalls, ret, valVars, queryVars, postVars>>

NextSession == Construct \/ RemoteCall \/ Shutdown

SpecSession == InitCLI /\ [][NextSession]_vars

----------------------------------------------------------------------------
(* A refresh of the registry while a request is being processed: another   *)
(* goroutine runs Agent.fetchToolsFromMCP (service.go:98-119) on the agent *)
(* processUserInput works with.  Agent.tools is read and written without   *)
(* any lock, so the assignment can land between any two steps of the       *)
(* request.                                                                *)

\* fetchToolsFromMCP runs from entry to return on the other goroutine
Refetch ==
    /\ pc \in {"deciding", "loop", "calling"}
    /\ \E connect \in ConnectOutcomes, listing \in ListToolsOutcomes :
        LET e == ensureMCPSession(mcpSession, built.config, connect, sessions)
            c == IF e.err = NoError THEN [kind |-> "session"] ELSE [kind |-> "error"]
        IN
        /\ mcpSession' = e.session
        /\ sessions' = sessions \cup e.made
        /\ open' = open \cup e.made
        /\ tools' = fetchToolsFromMCP(tools, c, listing).tools
    /\ UNCHANGED <<auxVars, built, remote, cliVars, valVars, queryVars, postVars>>

NextRefresh == NextCLI \/ Refetch

SpecRefresh == InitCLI /\ [][NextRefresh]_vars

----------------------------------------------------------------------------
(* Concurrent first uses of the session: the goroutines of Callers run     *)
(* Agent.ensureMCPSession (service.go:121-136) on one agent at the same    *)
(* time.  The method holds no lock, so its read of a.mcpSession, its       *)
(* Connect and its assignment interleave with those of the other callers.  *)
(* gpc is "idle" before the call, "absent" after the caller read nil,      *)
(* "connected" when Connect has returned a session to it, "done" after the *)
(* return and "failed" after the return of an error; pc is "racing" once   *)
(* a caller has entered.                                                   *)

\* a caller reads a.mcpSession and the configuration (service.go:123-128)
RaceCheck ==
    /\ pc \in {"idle", "racing"}
    /\ pc' = "racing"
    /\ \E g \in Callers :
        /\ gpc[g] = "idle"
        /\ IF mcpSession # NoSession
           THEN gpc' = [gpc EXCEPT ![g] = "done"]
                /\ glocal' = [glocal EXCEPT ![g] = mcpSession]
           ELSE IF built.config.MCPServer = ""
           THEN gpc' = [gpc EXCEPT ![g] = "failed"] /\ glocal' = glocal
           ELSE gpc' = [gpc EXCEPT ![g] = "absent"] /\ glocal' = glocal
    /\ UNCHANGED <<tools, built, sessVars, reply, response, idx, verdicts, sent,
                   llmCalls, ret, valVars, queryVars, postVars, scrapeVars>>

\* Connect answers a caller that read nil (service.go:129-133)
RaceConnect ==
    /\ \E g \in Callers, connect \in ConnectOutcomes :
        /\ gpc[g] = "absent"
        /\ IF connect.kind # "session"
           THEN /\ gpc' = [gpc EXCEPT ![g] = "failed"]
                /\ UNCHANGED <<glocal, sessions, open>>
           ELSE /\ gpc' = [gpc EXCEPT ![g] = "connected"]
                /\ glocal' = [glocal EXCEPT ![g] = NewSession(sessions)]
                /\ sessions' = sessions \cup {NewSession(sessions)}
                /\ open' = open \cup {NewSession(sessions)}
    /\ UNCHANGED <<tools, built, mcpSession, remote, cliVars, valVars, queryVars,
                   postVars, scrapeVars>>

\* RaceAssign closing the session it overwrites
RaceAssignReleasesOld ==
    /\ \E g \in Callers :
        /\ gpc[g] = "connected"
        /\ mcpSession' = glocal[g]
        /\ open' = open \ {mcpSession}
        /\ gpc' = [gpc EXCEPT ![g] = "done"]
    /\ UNCHANGED <<tools, built, sessions, remote, glocal, cliVars, valVars,
                   queryVars, postVars, scrapeVars>>

\* a caller stores its session in a.mcpSession and returns it
\* (service.go:134-135)
RaceAssign ==
    /\ \E g \in Callers :
        /\ gpc[g] = "connected"
        /\ mcpSession' = glocal[g]
        /\ gpc' = [gpc EXCEPT ![g] = "done"]
    /\ UNCHANGED <<tools, built, sessions, open, remote, glocal, cliVars, valVars,
                   queryVars, postVars, scrapeVars>>

NextRace == Construct \/ RaceCheck \/ RaceConnect \/ RaceAssign

SpecRace == InitCLI /\ [][NextRace]_vars


----------------------------------------------------------------------------
(* A direct invocation of Agent.ValidateToolCall: the registry and the     *)
(* call are any of a bounded set, a tool without a parameter schema and a  *)
(* call without an arguments map included.                                 *)

\* most arguments a directly validated call carries
MaxArgs == 3

\* a tool of another server, with a parameter of every kind
ConvertTool ==
    [Name |-> "convert",
     Description |-> "Convert a document",
     Parameters |->
        [Properties |-> [ratio |-> [Type |-> "number"],
                         strict |-> [Type |-> "boolean"],
                         options |-> [Type |-> "object"],
                         target |-> [Type |-> "object"],
                         max_length |-> [Type |-> "integer"]],
         Required |-> <<"ratio", "target">>]]

\* a tool listed without an input schema
BareTool ==
    [Name |-> "ping", Description |-> "Check the server", Parameters |-> NoSchema]

ValidateRegistries ==
    {<<>>,
     <<ScrapeURLTool, SummarizeTool>>,
     <<SummarizeTool, ConvertTool>>,
     <<BareTool, ScrapeURLTool>>}

ArgKeys == {"url", "content", "max_length", "ratio", "strict", "target", "extra"}

ArgValues ==
    {JStr("text"), JNum(20), JNum(15), JBool(TRUE), JNull, JObj(<<>>)}

ArgumentMaps ==
    UNION {[keys -> ArgValues] :
            keys \in {ks \in SUBSET ArgKeys : Cardinality(ks) <= MaxArgs}}

ToolNames == {"scrape_url", "summarize_content", "convert", "ping", "search_web"}

DirectCalls ==
    [Name : ToolNames, Arguments : ArgumentMaps, Reasoning : {"because"}]

InitValidate ==
    /\ tools \in ValidateRegistries
    /\ toolCall \in DirectCalls
    /\ valErr = NotCalled
    /\ built = NotBuilt
    /\ SessIdle /\ AuxIdle /\ CliIdle /\ QueryIdle /\ PostIdle

\* ValidateToolCall(toolCall) returns
ValidateDirect ==
    /\ pc = "off" /\ qpc = "off"
    /\ valErr = NotCalled
    /\ valErr' \in ValidateToolCall(tools, toolCall)
    /\ UNCHANGED <<auxVars, tools, built, sessVars, postVars, toolCall, cliVars, queryVars>>

NextValidate == ValidateDirect

SpecValidate == InitValidate /\ [][NextValidate]_vars


----------------------------------------------------------------------------
(* Agent.ProcessQuery of the query agent (unnamed/part_001:69-109) with    *)
(* analyzeQuery, executeTools and the two response generators.             *)

\* strings.TrimPrefix and strings.TrimSuffix
TrimPrefix(toks, prefix) ==
    IF Len(toks) >= Len(prefix) /\ SubSeq(toks, 1, Len(prefix)) = prefix
    THEN SubSeq(toks, Len(prefix) + 1, Len(toks))
    ELSE toks

TrimSuffix(toks, suffix) ==
    IF Len(toks) >= Len(suffix)
       /\ SubSeq(toks, Len(toks) - Len(suffix) + 1, Len(toks)) = suffix
    THEN SubSeq(toks, 1, Len(toks) - Len(suffix))
    ELSE toks

\* the clean-up of markdown code blocks (part_001:171-175)
StripFences(content) ==
    TrimSpace(TrimSuffix(TrimPrefix(TrimPrefix(content, <<FENCE, TWord("json")>>),
                                    <<FENCE>>),
                         <<FENCE>>))

\* json.Unmarshal into []map[string]interface{}
UnmarshalRawCalls(content) ==
    LET p == ParseJSON(content) IN
    IF ~p.ok THEN [dst |-> <<>>, err |-> TRUE]
    ELSE CASE p.v.k = "null" -> [dst |-> <<>>, err |-> FALSE]
           [] p.v.k = "arr" ->
                [dst |-> [j \in DOMAIN p.v.el |->
                            IF p.v.el[j].k = "obj" THEN MapOf(p.v.el[j].el)
                            ELSE NoArgs],
                 err |-> \E j \in DOMAIN p.v.el : p.v.el[j].k \notin {"obj", "null"}]
           [] OTHER -> [dst |-> <<>>, err |-> TRUE]

\* the interface{} value of a tree: an object is a map
GoValue(v) == IF v.k = "obj" THEN MapOf(v.el) ELSE v

\* the conversion to CallToolParams (part_001:189-207): a raw call without
\* a string name is left out, absent arguments become an empty map
RECURSIVE ConvertRawCalls(_)
ConvertRawCalls(raw) ==
    IF raw = <<>> THEN <<>>
    ELSE LET rawCall == Head(raw) IN
         IF "name" \in DOMAIN rawCall /\ rawCall["name"].k = "str"
         THEN <<[Name |-> rawCall["name"].s,
                 Arguments |-> IF "arguments" \in DOMAIN rawCall
                               THEN GoValue(rawCall["arguments"])
                               ELSE NoArgs]>>
              \o ConvertRawCalls(Tail(raw))
         ELSE ConvertRawCalls(Tail(raw))

\* analyzeQuery from the chat completion's outcome on (part_001:158-209)
analyzeQuery(completion) ==
    CASE completion.kind = "error" -> [calls |-> <<>>, err |-> "LLM request failed"]
      [] completion.kind = "no_choices" ->
            [calls |-> <<>>, err |-> "no response from LLM"]
      [] completion.kind = "content" ->
            LET content == StripFences(TrimSpace(completion.content)) IN
            IF content = <<LBRACK, RBRACK>> \/ content = <<>>
            THEN [calls |-> <<>>, err |-> NoError]
            ELSE LET u == UnmarshalRawCalls(content) IN
                 IF u.err
                 THEN [calls |-> <<>>, err |-> "failed to parse tool calls JSON"]
                 ELSE [calls |-> ConvertRawCalls(u.dst), err |-> NoError]

\* the replies to analyzeQuery: a JSON array of {"name", "arguments"}
RawCallTree(call) ==
    JObj(<<[key |-> "name", val |-> JStr(call.Name)],
           [key |-> "arguments", val |-> ArgumentsTree(call.Arguments)]>>)

EncodeCalls(calls) ==
    EncodeValue(JArr([j \in DOMAIN calls |-> RawCallTree(calls[j])]))

\* the calls the query agent is asked to make
QueryCallLists == UNION {[1..n -> {GoodScrape, GoodSummarize}] : n \in 0..MaxCalls}

QueryCompletions ==
    {[kind |-> "error"], [kind |-> "no_choices"]}
    \cup {Content(EncodeCalls(calls), "well_formed", calls) : calls \in QueryCallLists}
    \cup {Content(<<FENCE, TWord("json"), WS>> \o EncodeCalls(calls) \o <<WS, FENCE>>,
                  "fenced", calls) : calls \in {<<>>, <<GoodScrape>>}}
    \cup {Content(toks, "truncated", <<GoodScrape>>) :
            toks \in Prefixes(EncodeCalls(<<GoodScrape>>))}
    \cup {Content(<<TWord("No tools are needed.")>>, "non_json", <<>>)}

\* what the transport's CallTool can answer the query agent: an error, or a
\* CallToolResult whose Content holds text items
QueryCallToolOutcomes ==
    {[kind |-> "error"],
     [kind |-> "result", IsError |-> TRUE, Content |-> <<"Error scraping URL">>],
     [kind |-> "result", IsError |-> FALSE, Content |-> <<"A">>],
     [kind |-> "result", IsError |-> FALSE, Content |-> <<"B">>],
     [kind |-> "result", IsError |-> FALSE, Content |-> <<>>]}

\* what the chat completion of a response generator can be
ResponseCompletions ==
    {[kind |-> "error"], [kind |-> "no_choices"],
     [kind |-> "content", content |-> <<TWord("Here is what I found.")>>]}

\* generateFinalResponse and generateDirectResponse from the completion on
\* (part_001:284-292, 315-323)
generateResponse(completion) ==
    CASE completion.kind = "error" -> [text |-> <<>>, err |-> "LLM request failed"]
      [] completion.kind = "no_choices" ->
            [text |-> <<>>, err |-> "no response from LLM"]
      [] completion.kind = "content" -> [text |-> completion.content, err |-> NoError]

\* the text of one result in the context (part_001:398-413): the first text
\* item of a successful result, a fixed text otherwise
ResultText(result) ==
    IF result.IsError THEN "Tool execution failed"
    ELSE IF result.Content # <<>> /\ Head(result.Content) # ""
    THEN Head(result.Content)
    ELSE "Tool executed successfully but no text content available"

\* the label "Tool i result:\n" that precedes each text, as its pieces
ToolLabel(i) == <<"Tool ", ToString(i), " result:\n">>

RECURSIVE JoinContexts(_, _)
JoinContexts(contexts, sep) ==
    IF contexts = <<>> THEN <<>>
    ELSE IF Len(contexts) = 1 THEN Head(contexts)
    ELSE Head(contexts) \o <<sep>> \o JoinContexts(Tail(contexts), sep)

\* buildResultsContext (part_001:391-420): the text, as its pieces in order
buildResultsContext(results) ==
    IF Len(results) = 0 THEN <<"No tool results available.">>
    ELSE JoinContexts([i \in DOMAIN results |->
                            ToolLabel(i) \o <<ResultText(results[i])>>],
                      "\n\n")

Returned(resp, err) == [kind |-> "returned", resp |-> resp, err |-> err]

InitQuery ==
    /\ tools = <<>>
    /\ qpc = "idle" /\ qTools = <<>> /\ qListed = NotListed
    /\ qReply = NoCompletion
    /\ qCalls = <<>> /\ qIdx = 0 /\ qResults = <<>> /\ qSent = <<>>
    /\ qContext = NoContext /\ qAnswer = NoCompletion /\ qRet = NotReturned
    /\ built = NotBuilt
    /\ SessIdle /\ AuxIdle /\ CliIdle /\ ValIdle /\ PostIdle

\* QRefresh adding the listed tools to those it has
QRefreshMerges ==
    /\ qpc = "idle"
    /\ \E outcome \in ListToolsOutcomes :
        /\ qTools' = IF outcome.kind = "error" THEN qTools
                     ELSE qTools \o outcome.Tools
        /\ qListed' = [outcome |-> outcome, before |-> qTools]
    /\ Len(qTools') <= 4
    /\ UNCHANGED <<auxVars, tools, built, sessVars, postVars, qpc, qReply, qCalls, qIdx, qResults,
                   qSent, qContext, qAnswer, qRet, cliVars, valVars>>

\* QRefresh emptying the registry when ListTools fails
QRefreshClearsOnError ==
    /\ qpc = "idle"
    /\ \E outcome \in ListToolsOutcomes :
        /\ qTools' = IF outcome.kind = "error" THEN <<>> ELSE outcome.Tools
        /\ qListed' = [outcome |-> outcome, before |-> qTools]
    /\ UNCHANGED <<auxVars, tools, built, sessVars, postVars, qpc, qReply, qCalls, qIdx, qResults,
                   qSent, qContext, qAnswer, qRet, cliVars, valVars>>

\* RefreshTools (part_001:57-67): ListTools answers; on an error the tools
\* are left as they were, otherwise the answer's list takes their place
QRefresh ==
    /\ qpc = "idle"
    /\ \E outcome \in ListToolsOutcomes :
        /\ qTools' = IF outcome.kind = "error" THEN qTools ELSE outcome.Tools
        /\ qListed' = [outcome |-> outcome, before |-> qTools]
    /\ UNCHANGED <<auxVars, tools, built, sessVars, postVars, qpc, qReply, qCalls, qIdx, qResults, qSent, qContext,
                   qAnswer, qRet, cliVars, valVars>>

\* analyzeQuery is entered and issues its chat completion (part_001:74, 142)
QAsk ==
    /\ qpc = "idle"
    /\ qpc' = "analyzing"
    /\ UNCHANGED <<auxVars, tools, built, sessVars, postVars, qTools, qListed, qReply, qCalls, qIdx, qResults, qSent,
                   qContext, qAnswer, qRet, cliVars, valVars>>

\* the completion arrives: analyzeQuery returns, ProcessQuery returns its
\* error, enters executeTools or asks for a direct response (part_001:74-101)
QAnalyze ==
    /\ qpc = "analyzing"
    /\ \E completion \in QueryCompletions :
        LET r == analyzeQuery(completion) IN
        /\ qReply' = completion
        /\ qCalls' = r.calls
        /\ IF r.err # NoError
           THEN /\ qpc' = "returned" /\ qIdx' = qIdx
                /\ qRet' = Returned(NoResponse, "failed to analyze query")
           ELSE IF Len(r.calls) > 0
           THEN qpc' = "executing" /\ qIdx' = 1 /\ qRet' = qRet
           ELSE qpc' = "direct" /\ qIdx' = qIdx /\ qRet' = qRet
    /\ UNCHANGED <<auxVars, tools, built, sessVars, postVars, qTools, qListed, qResults, qSent, qContext, qAnswer,
                   cliVars, valVars>>

\* QCall handing the next call to the transport without waiting for the
\* answer to the one before
QCallEager ==
    /\ qpc \in {"executing", "calling"}
    /\ Len(qSent) < Len(qCalls)
    /\ qSent' = Append(qSent,
            [call |-> Len(qSent) + 1, params |-> qCalls[Len(qSent) + 1],
             answer |-> Pending])
    /\ qpc' = "calling"
    /\ UNCHANGED <<auxVars, tools, built, sessVars, postVars, qTools, qListed, qReply, qCalls, qIdx,
                   qResults, qContext, qAnswer, qRet, cliVars, valVars>>

\* the head of an iteration of executeTools: the call at qIdx is handed to
\* the transport (part_001:216-222)
QCall ==
    /\ qpc = "executing"
    /\ qSent' = Append(qSent,
            [call |-> qIdx, params |-> qCalls[qIdx], answer |-> Pending])
    /\ qpc' = "calling"
    /\ UNCHANGED <<auxVars, tools, built, sessVars, postVars, qTools, qListed, qReply, qCalls, qIdx, qResults,
                   qContext, qAnswer, qRet, cliVars, valVars>>

\* QExecute with executeTools returning the transport's error, which
\* ProcessQuery wraps and returns
QExecuteAbortsOnError ==
    /\ qpc = "calling"
    /\ \E answer \in QueryCallToolOutcomes :
        /\ qSent' = [qSent EXCEPT ![Len(qSent)].answer = answer]
        /\ IF answer.kind = "error"
           THEN /\ qResults' = qResults
                /\ qpc' = "returned"
                /\ qContext' = qContext
                /\ qRet' = Returned(NoResponse, "failed to execute tools")
           ELSE /\ qResults' = Append(qResults,
                        [IsError |-> answer.IsError, Content |-> answer.Content])
                /\ qpc' = IF qIdx < Len(qCalls) THEN "executing" ELSE "final"
                /\ qContext' = IF qIdx < Len(qCalls) THEN qContext
                               ELSE buildResultsContext(qResults')
                /\ qRet' = qRet
    /\ qIdx' = qIdx + 1
    /\ UNCHANGED <<auxVars, tools, built, sessVars, postVars, qTools, qListed, qReply, qCalls, qAnswer, cliVars, valVars>>

\* QExecute leaving the loop for the final response at the first result
QExecuteRespondsEarly ==
    /\ qpc = "calling"
    /\ \E answer \in QueryCallToolOutcomes :
        /\ qSent' = [qSent EXCEPT ![Len(qSent)].answer = answer]
        /\ qResults' = IF answer.kind = "error" THEN qResults
                       ELSE Append(qResults,
                                [IsError |-> answer.IsError, Content |-> answer.Content])
        /\ qpc' = IF qIdx < Len(qCalls) /\ answer.kind = "error"
                  THEN "executing" ELSE "final"
        /\ qContext' = IF qIdx < Len(qCalls) /\ answer.kind = "error" THEN qContext
                       ELSE buildResultsContext(qResults')
    /\ qIdx' = qIdx + 1
    /\ UNCHANGED <<auxVars, tools, built, sessVars, postVars, qTools, qListed, qReply, qCalls, qAnswer, qRet,
                   cliVars, valVars>>

\* the rest of the iteration: the transport answers the call at qIdx; after
\* the last, generateFinalResponse builds its context and issues its chat
\* completion (part_001:222-245, 87-94, 249-268)
QExecute ==
    /\ qpc = "calling"
    /\ \E answer \in QueryCallToolOutcomes :
        /\ qSent' = [qSent EXCEPT ![Len(qSent)].answer = answer]
        /\ qResults' = IF answer.kind = "error" THEN qResults
                       ELSE Append(qResults,
                                [IsError |-> answer.IsError, Content |-> answer.Content])
    /\ qIdx' = qIdx + 1
    /\ qpc' = IF qIdx < Len(qCalls) THEN "executing" ELSE "final"
    /\ qContext' = IF qIdx < Len(qCalls) THEN qContext
                   ELSE buildResultsContext(qResults')
    /\ UNCHANGED <<auxVars, tools, built, sessVars, postVars, qTools, qListed, qReply, qCalls, qAnswer, qRet,
                   cliVars, valVars>>

\* the completion of a response generator arrives and ProcessQuery returns
\* (part_001:94-108)
QRespond ==
    /\ qpc \in {"final", "direct"}
    /\ \E completion \in ResponseCompletions :
        LET r == generateResponse(completion) IN
        /\ qAnswer' = completion
        /\ qRet' = IF r.err # NoError
                   THEN Returned(NoResponse,
                                 IF qpc = "final"
                                 THEN "failed to generate final response"
                                 ELSE "failed to generate direct response")
                   ELSE Returned([Response |-> r.text, ToolCalls |-> qCalls,
                                  ToolResults |-> qResults], NoError)
    /\ qpc' = "returned"
    /\ UNCHANGED <<auxVars, tools, built, sessVars, postVars, qTools, qListed, qReply, qCalls, qIdx, qResults, qSent,
                   qContext, cliVars, valVars>>

NextQuery == QRefresh \/ QAsk \/ QAnalyze \/ QCall \/ QExecute \/ QRespond

SpecQuery == InitQuery /\ [][NextQuery]_vars

----------------------------------------------------------------------------
(* Agent.PostProcess (service.go:148-179), invoked on its own: nothing in  *)
(* the repository calls it.  Instruction, content and the completion's     *)
(* text are token sequences.                                               *)

Instructions ==
    {<<>>, <<WS>>, <<TWord("Summarize")>>, <<WS, TWord("Summarize"), WS>>,
     <<TWord("Recommend")>>}

Contents ==
    {<<>>, <<WS>>, <<TWord("A")>>, <<TWord("A"), WS, WS, TWord("B")>>,
     <<WS, TWord("B")>>}

PostInputs == [instruction : Instructions, content : Contents]

PostCompletions ==
    {[kind |-> "error"], [kind |-> "no_choices"],
     [kind |-> "content", content |-> <<>>],
     [kind |-> "content", content |-> <<TWord("Summary")>>],
     [kind |-> "content", content |-> <<WS, TWord("Summary"), WS>>]}

\* PostProcessCalls taking a blank instruction for a verb
PostProcessCallsUntrimmed(in) ==
    ~(in.instruction = <<>> \/ in.content = <<>>)

\* the guard of service.go:151-154: whether PostProcess goes on to the
\* chat completion
PostProcessCalls(in) ==
    ~(TrimSpace(in.instruction) = <<>> \/ in.content = <<>>)

\* what PostProcess returns on the completion's outcome (service.go:170-178)
PostProcessResult(in, completion) ==
    CASE completion.kind = "error" -> [out |-> <<>>, err |-> "post-process failed"]
      [] completion.kind = "no_choices" ->
            [out |-> <<>>, err |-> "post-process returned no choices"]
      [] completion.kind = "content" ->
            [out |-> TrimSpace(completion.content), err |-> NoError]

PostReturned(r) == [kind |-> "returned", out |-> r.out, err |-> r.err]

InitPost ==
    /\ tools = <<>> /\ built = NotBuilt
    /\ ppc = "idle" /\ ppIn \in PostInputs /\ ppCalls = 0
    /\ ppReply = NoCompletion /\ ppRet = NotReturned
    /\ SessIdle /\ AuxIdle /\ CliIdle /\ ValIdle /\ QueryIdle

\* PostProcess is entered: it returns the content at once, or issues its
\* chat completion (service.go:150-169)
PPEnter ==
    /\ ppc = "idle"
    /\ IF PostProcessCalls(ppIn)
       THEN ppc' = "calling" /\ ppCalls' = ppCalls + 1 /\ ppRet' = ppRet
       ELSE /\ ppc' = "returned" /\ ppCalls' = ppCalls
            /\ ppRet' = PostReturned([out |-> ppIn.content, err |-> NoError])
    /\ UNCHANGED <<auxVars, tools, built, sessVars, ppIn, ppReply, cliVars, valVars, queryVars>>

\* the completion arrives and PostProcess returns (service.go:169-178)
PPReturn ==
    /\ ppc = "calling"
    /\ \E completion \in PostCompletions :
        /\ ppReply' = completion
        /\ ppRet' = PostReturned(PostProcessResult(ppIn, completion))
    /\ ppc' = "returned"
    /\ UNCHANGED <<auxVars, tools, built, sessVars, ppIn, ppCalls, cliVars, valVars, queryVars>>

NextPost == PPEnter \/ PPReturn

SpecPostProcess == InitPost /\ [][NextPost]_vars

----------------------------------------------------------------------------
(* Service.ScrapeMultiple (internal/scraper/service.go:228-265): the loop   *)
(* starts one goroutine per URL; each goroutine sends a value into the     *)
(* semaphore channel, calls ScrapeURL, stores the result and sends nil on  *)
(* errChan, or sends the error, and takes its value out of the semaphore   *)
(* as it returns; the caller receives len(urls) values from errChan and    *)
(* returns.  wpc is "unborn" before the goroutine is started, "acquiring"  *)
(* while it waits to send into the semaphore, "scraping" while ScrapeURL   *)
(* runs, "releasing" before its deferred receive and "done" after it.      *)

MaxURLs == 4

\* the capacity of the semaphore channel (service.go:234)
SemaphoreSize == 3

\* results[i] is nil
NoResult == [kind |-> "nil"]

\* the *Result ScrapeURL returns for urls[i]
ResultOf(i) == [kind |-> "result", url |-> i]

\* the values sent on errChan
NilError == [kind |-> "nil"]
ScrapeError(i) == [kind |-> "failed to scrape", url |-> i]

InitScrape ==
    /\ tools = <<>> /\ built = NotBuilt
    /\ spc = "running"
    /\ nurls \in 0..MaxURLs
    /\ spawned = 0
    /\ wpc = [i \in 1..nurls |-> "unborn"]
    /\ sem = 0 /\ errChan = <<>>
    /\ sresults = [i \in 1..nurls |-> NoResult]
    /\ serrors = <<>> /\ received = 0 /\ sret = NotReturned
    /\ scraped = [i \in 1..nurls |-> "pending"]
    /\ RaceIdle /\ SessIdle /\ CliIdle /\ ValIdle /\ QueryIdle /\ PostIdle

\* one iteration of the loop over urls: the go statement (service.go:236-250)
SSpawn ==
    /\ spc = "running"
    /\ spawned < nurls
    /\ spawned' = spawned + 1
    /\ wpc' = [wpc EXCEPT ![spawned + 1] = "acquiring"]
    /\ UNCHANGED <<tools, built, sessVars, cliVars, valVars, queryVars, postVars,
                   raceVars, spc, nurls, sem, errChan, sresults, serrors, received,
                   sret, scraped>>

\* WAcquire with a semaphore that never fills
WAcquireUnbounded ==
    /\ \E i \in DOMAIN wpc :
        /\ wpc[i] = "acquiring"
        /\ sem' = sem + 1
        /\ wpc' = [wpc EXCEPT ![i] = "scraping"]
    /\ UNCHANGED <<tools, built, sessVars, cliVars, valVars, queryVars, postVars,
                   raceVars, spc, nurls, spawned, errChan, sresults, serrors, received,
                   sret, scraped>>

\* a goroutine's send into the semaphore goes through: the channel holds
\* fewer than its capacity (service.go:238)
WAcquire ==
    /\ \E i \in DOMAIN wpc :
        /\ wpc[i] = "acquiring"
        /\ sem < SemaphoreSize
        /\ sem' = sem + 1
        /\ wpc' = [wpc EXCEPT ![i] = "scraping"]
    /\ UNCHANGED <<tools, built, sessVars, cliVars, valVars, queryVars, postVars,
                   raceVars, spc, nurls, spawned, errChan, sresults, serrors, received,
                   sret, scraped>>

\* WScrape returning on a failed scrape without a send on errChan
WScrapeDropsError ==
    /\ \E i \in DOMAIN wpc, ok \in BOOLEAN :
        /\ wpc[i] = "scraping"
        /\ Len(errChan) < nurls
        /\ scraped' = [scraped EXCEPT ![i] = IF ok THEN "ok" ELSE "failed"]
        /\ sresults' = IF ok THEN [sresults EXCEPT ![i] = ResultOf(i)] ELSE sresults
        /\ errChan' = IF ok THEN Append(errChan, NilError) ELSE errChan
        /\ wpc' = [wpc EXCEPT ![i] = "releasing"]
    /\ UNCHANGED <<tools, built, sessVars, cliVars, valVars, queryVars, postVars,
                   raceVars, spc, nurls, spawned, sem, serrors, received, sret>>

\* ScrapeURL returns to a goroutine, which stores the result and sends nil,
\* or sends the error; errChan has room for len(urls) values
\* (service.go:241-248)
WScrape ==
    /\ \E i \in DOMAIN wpc, ok \in BOOLEAN :
        /\ wpc[i] = "scraping"
        /\ Len(errChan) < nurls
        /\ scraped' = [scraped EXCEPT ![i] = IF ok THEN "ok" ELSE "failed"]
        /\ sresults' = IF ok THEN [sresults EXCEPT ![i] = ResultOf(i)] ELSE sresults
        /\ errChan' = Append(errChan, IF ok THEN NilError ELSE ScrapeError(i))
        /\ wpc' = [wpc EXCEPT ![i] = "releasing"]
    /\ UNCHANGED <<tools, built, sessVars, cliVars, valVars, queryVars, postVars,
                   raceVars, spc, nurls, spawned, sem, serrors, received, sret>>

\* the deferred receive from the semaphore as the goroutine returns
\* (service.go:239)
WRelease ==
    /\ \E i \in DOMAIN wpc :
        /\ wpc[i] = "releasing"
        /\ sem > 0
        /\ sem' = sem - 1
        /\ wpc' = [wpc EXCEPT ![i] = "done"]
    /\ UNCHANGED <<tools, built, sessVars, cliVars, valVars, queryVars, postVars,
                   raceVars, spc, nurls, spawned, errChan, sresults, serrors, received,
                   sret, scraped>>

\* one iteration of the waiting loop: a value is received from errChan
\* (service.go:254-258)
SReceive ==
    /\ spc = "running"
    /\ spawned = nurls
    /\ received < nurls
    /\ errChan # <<>>
    /\ errChan' = Tail(errChan)
    /\ received' = received + 1
    /\ serrors' = IF Head(errChan) # NilError THEN Append(serrors, Head(errChan))
                  ELSE serrors
    /\ UNCHANGED <<tools, built, sessVars, cliVars, valVars, queryVars, postVars,
                   raceVars, spc, nurls, spawned, wpc, sem, sresults, sret, scraped>>

\* ScrapeMultiple returns (service.go:260-264)
SReturn ==
    /\ spc = "running"
    /\ spawned = nurls
    /\ received = nurls
    /\ spc' = "returned"
    /\ sret' = [kind |-> "returned", results |-> sresults,
                err |-> IF Len(serrors) > 0 THEN "scraping errors" ELSE NoError,
                errors |-> serrors]
    /\ UNCHANGED <<tools, built, sessVars, cliVars, valVars, queryVars, postVars,
                   raceVars, nurls, spawned, wpc, sem, errChan, sresults, serrors,
                   received, scraped>>

NextScrape == SSpawn \/ WAcquire \/ WScrape \/ WRelease \/ SReceive \/ SReturn

SpecScrape == InitScrape /\ [][NextScrape]_vars

\* every goroutine that can run does run in the end, and ScrapeURL returns
SpecScrapeLive ==
    /\ InitScrape /\ [][NextScrape]_vars
    /\ WF_vars(SSpawn) /\ WF_vars(WAcquire) /\ WF_vars(WScrape)
    /\ WF_vars(WRelease) /\ WF_vars(SReceive) /\ WF_vars(SReturn)

----------------------------------------------------------------------------
(* The request pipelines and the direct invocations, each from its own     *)
(* initial state.                                                          *)

Init == InitCLI \/ InitQuery \/ InitValidate \/ InitPost \/ InitScrape

Next == NextCLI \/ NextSession \/ Refetch \/ NextRace \/ NextQuery \/ NextValidate \/ NextPost
            \/ NextScrape

Spec == Init /\ [][Next]_vars

SpecPipelines == (InitCLI \/ InitQuery) /\ [][NextCLI \/ NextQuery]_vars


----------------------------------------------------------------------------
(* The claims.                                                             *)

\* the decision ProcessInput returned is the fixed fallback
IsFallback(r) ==
    /\ r # NoResponse
    /\ r.ShouldCall = FALSE
    /\ r.Confidence = 1
    /\ r.ToolCalls = <<>>
    /\ r.PostProcess = ""

\* ProcessInput has returned to processUserInput
Decided == pc \in {"loop", "calling", "returned", "crashed"}

\* C1: for a reply that is no JSON text (prose, or a decision cut short)
\* ProcessInput returns the fallback decision (should_call false, confidence
\* 0.1, no tool calls, no post_process) and no error.
C1_UnparseableReplyGivesFallback ==
    (Decided /\ reply.kind = "content" /\ reply.shape \in {"truncated", "non_json"})
        => (IsFallback(response) /\ pc = "returned" /\ ret = NoError)

C1_Witness ==
    /\ pc = "returned" /\ reply.kind = "content" /\ reply.shape = "truncated"
    /\ Len(reply.content) > 20
    /\ IsFallback(response) /\ ret = NoError

\* C2: for a reply that is a JSON object lacking a required field of the
\* decision, ProcessInput returns the fallback decision.
C2_MissingFieldsGiveFallback ==
    (Decided /\ reply.kind = "content" /\ reply.shape = "missing_fields")
        => IsFallback(response)

\* C3: for a reply in the contract's shape ProcessInput returns the decision
\* the reply spells out: message, tool calls in order with their name,
\* arguments and reasoning, should_call, confidence, explanation and
\* post_process are those of the reply.
C3_WellFormedReplyReturnedUnchanged ==
    (Decided /\ reply.kind = "content" /\ reply.shape = "well_formed")
        => (response = reply.meant /\ ret # "agent processing failed")

C3_Witness ==
    /\ Decided /\ reply.kind = "content" /\ reply.shape = "well_formed"
    /\ response = reply.meant
    /\ Len(response.ToolCalls) = 3
    /\ response.ToolCalls[1] = GoodSummarize
    /\ response.ToolCalls[2] = MistypedCall
    /\ response.ToolCalls[3] = GoodScrape
    /\ response.PostProcess = "Summarize"

\* C4: when the decision's chat completion fails or carries no choice,
\* ProcessInput returns an error and no decision, processUserInput returns
\* an error, and no call of the request is validated or dispatched.
C4_FailedDecisionCallIsFatal ==
    (pc \notin {"idle", "deciding"} /\ reply.kind \in {"error", "no_choices"})
        => /\ response = NoResponse
           /\ pc = "returned"
           /\ ret = "agent processing failed"
           /\ verdicts = <<>>
           /\ sent = <<>>

C4_Witness ==
    /\ pc = "returned" /\ reply.kind = "no_choices"
    /\ response = NoResponse /\ ret = "agent processing failed"

\* the outcomes the loop recorded, in order
Outcomes == [k \in DOMAIN verdicts |-> verdicts[k].outcome]

\* C5: once the decision is made, no failing tool call (invalid, failed at
\* the transport, or reported failed by the tool) makes the entry point
\* return an error: processUserInput returns nil, and ProcessQuery returns
\* an error only when the chat completion of its response generator failed.
C5_ToolFailuresNeverFatal ==
    /\ pc # "crashed"
    /\ (pc = "returned" /\ response # NoResponse) => ret = NoError
    /\ (qpc = "returned" /\ qRet.err \notin {NoError, "failed to analyze query"})
            => qAnswer.kind \in {"error", "no_choices"}
    /\ (qpc = "returned" /\ qAnswer.kind = "content") => qRet.err = NoError

C5_Witness ==
    /\ pc = "returned" /\ ret = NoError
    /\ Outcomes = <<"validation_failed", "execution_failed", "execution_failed">>
    /\ verdicts[2].err = "MCP tool call failed"
    /\ verdicts[3].err = "tool execution failed"

\* the tool of the registry the directly validated call names
Matched(j) == j \in DOMAIN tools /\ tools[j].Name = toolCall.Name

\* the kind of value a declared primitive type asks for
PrimitiveKind ==
    [string |-> "str", integer |-> "num", number |-> "num", boolean |-> "bool"]

\* argument p of the call is declared with a primitive type by tool j and
\* its value is of another kind
Mistyped(j, p) ==
    /\ p \in DOMAIN toolCall.Arguments
    /\ p \in DOMAIN tools[j].Parameters.Properties
    /\ tools[j].Parameters.Properties[p].Type \in DOMAIN PrimitiveKind
    /\ toolCall.Arguments[p].k
            # PrimitiveKind[tools[j].Parameters.Properties[p].Type]

\* the call carries every parameter tool j requires
AllRequiredPresent(j) ==
    \A r \in DOMAIN tools[j].Parameters.Required :
        tools[j].Parameters.Required[r] \in DOMAIN toolCall.Arguments

\* C6: a call whose name is that of no tool of the registry is rejected as
\* an unknown tool, whatever its arguments; with an empty registry every
\* call is.
C6_UnknownToolRejected ==
    (valErr # NotCalled /\ ~\E j \in DOMAIN tools : Matched(j))
        => (valErr.kind = "unknown_tool" /\ valErr.tool = toolCall.Name)

C6_Witness ==
    /\ valErr.kind = "unknown_tool"
    /\ tools # <<>>
    /\ toolCall.Name = "convert"
    /\ DOMAIN toolCall.Arguments = {"ratio", "target"}

\* C7: a call that lacks a parameter the matched tool requires is rejected
\* with a missing-parameter error that names the tool and a required
\* parameter the call lacks, also when the call has no arguments at all.
C7_MissingRequiredRejected ==
    \A j \in DOMAIN tools :
        (valErr # NotCalled /\ Matched(j) /\ tools[j].Parameters # NoSchema
         /\ ~AllRequiredPresent(j))
            => /\ valErr.kind = "missing_parameter"
               /\ valErr.tool = toolCall.Name
               /\ valErr.param \notin DOMAIN toolCall.Arguments
               /\ \E r \in DOMAIN tools[j].Parameters.Required :
                      tools[j].Parameters.Required[r] = valErr.param

C7_Witness ==
    /\ valErr.kind = "missing_parameter"
    /\ valErr.tool = "convert" /\ valErr.param = "target"
    /\ DOMAIN toolCall.Arguments = {"ratio", "extra"}

\* C8: a call with every required parameter present is rejected with a type
\* mismatch exactly when one of its arguments is declared string, integer,
\* number or boolean by the schema and has a value of another kind.
C8_TypeMismatchExactly ==
    \A j \in DOMAIN tools :
        (valErr # NotCalled /\ Matched(j) /\ tools[j].Parameters # NoSchema
         /\ AllRequiredPresent(j))
            => (valErr.kind = "type_mismatch"
                    <=> \E p \in DOMAIN toolCall.Arguments : Mistyped(j, p))

C8_Witness ==
    /\ valErr.kind = "type_mismatch" /\ valErr.param = "strict"
    /\ toolCall.Name = "convert"
    /\ "ratio" \in DOMAIN toolCall.Arguments

\* C9: a call to a known tool whose arguments are the required parameters,
\* each of the declared kind, and arguments the schema does not name, is
\* accepted whatever the values of the latter.
C9_ExtraArgumentsAccepted ==
    \A j \in DOMAIN tools :
        (valErr # NotCalled /\ Matched(j) /\ tools[j].Parameters # NoSchema
         /\ AllRequiredPresent(j)
         /\ \A p \in DOMAIN toolCall.Arguments :
                IF p \in DOMAIN tools[j].Parameters.Properties
                THEN /\ \E r \in DOMAIN tools[j].Parameters.Required :
                            tools[j].Parameters.Required[r] = p
                     /\ ~Mistyped(j, p)
                ELSE TRUE)
            => valErr = Ok

C9_Witness ==
    /\ valErr = Ok
    /\ toolCall.Name = "scrape_url"
    /\ DOMAIN toolCall.Arguments = {"url", "extra"}
    /\ toolCall.Arguments["extra"] = JObj(<<>>)

\* call j of the batch was handed to the transport
Dispatched(j) ==
    \E s \in DOMAIN sent :
        sent[s].call = j /\ sent[s].params = response.ToolCalls[j]

\* C10: a call that fails validation is not dispatched, and every call after
\* it in the batch is still validated and, when valid, dispatched.
C10_ValidationFailureSkipsOneCall ==
    \A k \in DOMAIN verdicts :
        verdicts[k].outcome = "validation_failed" =>
            /\ \A s \in DOMAIN sent : sent[s].call # verdicts[k].call
            /\ pc = "returned" =>
                \A j \in (verdicts[k].call + 1)..Len(response.ToolCalls) :
                    /\ \E k2 \in DOMAIN verdicts : verdicts[k2].call = j
                    /\ Ok \in ValidateToolCall(tools, response.ToolCalls[j])
                            => Dispatched(j)

C10_Witness ==
    /\ pc = "returned" /\ response # NoResponse
    /\ Len(response.ToolCalls) = 3
    /\ Outcomes = <<"validation_failed", "result", "validation_failed">>
    /\ Dispatched(2)
    /\ Len(sent) = 1


\* call j of the decision passes validation
ValidCall(j) == Ok \in ValidateToolCall(tools, response.ToolCalls[j])

\* the transport's answer reports success to the CLI
Succeeded(answer) == answer.kind = "result" /\ answer.Success

\* the results executeTools is to hold for the calls answered so far: one
\* per call the transport answered with a result, in the order of the calls
RECURSIVE Collected(_)
Collected(entries) ==
    IF entries = <<>> THEN <<>>
    ELSE IF Head(entries).answer.kind = "result"
    THEN <<[IsError |-> Head(entries).answer.IsError,
            Content |-> Head(entries).answer.Content]>> \o Collected(Tail(entries))
    ELSE Collected(Tail(entries))

\* C11: a failure of the transport on one call does not keep the later
\* calls of the batch from being attempted.  In processUserInput every
\* valid call after the failed one is dispatched and reported as a result
\* exactly when the transport answered it with success; in executeTools
\* every call after the failed one is dispatched and the results collected
\* are those of the answered calls, in the order of the calls.
C11_TransportFailureKeepsBatchGoing ==
    /\ \A s \in DOMAIN sent :
        (pc = "returned" /\ sent[s].answer.kind = "error") =>
            \A j \in (sent[s].call + 1)..Len(response.ToolCalls) :
                ValidCall(j) =>
                    \E s2 \in DOMAIN sent, k \in DOMAIN verdicts :
                        /\ s2 > s /\ sent[s2].call = j /\ verdicts[k].call = j
                        /\ sent[s2].answer # Pending
                        /\ (verdicts[k].outcome = "result")
                                <=> Succeeded(sent[s2].answer)
    /\ \A s \in DOMAIN qSent :
        (qpc \in {"final", "returned"} /\ qSent[s].answer.kind = "error") =>
            /\ Len(qSent) = Len(qCalls)
            /\ \A j \in (s + 1)..Len(qCalls) :
                    qSent[j].call = j /\ qSent[j].answer # Pending
            /\ qResults = Collected(qSent)

C11_Witness ==
    /\ pc = "returned" /\ Len(sent) = 3
    /\ sent[2].answer.kind = "error"
    /\ Outcomes = <<"result", "execution_failed", "result">>
    /\ verdicts[1].call = 1 /\ verdicts[3].call = 3
    /\ verdicts[3].text = <<"A", "\n", "B">>


\* the calls handed to the transport went out one after the other: each
\* but the last has been answered, and they are in the order of the list
OneAtATime(entries) ==
    \A s \in DOMAIN entries :
        s < Len(entries) =>
            /\ entries[s].answer # Pending
            /\ entries[s].call < entries[s + 1].call

\* C12: the tool calls of a request go to the transport one at a time, in
\* the order of the decision's list: a call is handed over only after the
\* one before it was answered, at most one call is unanswered at any time,
\* and each call handed over is the call at its position of the list.
C12_CallsStrictlySequential ==
    /\ OneAtATime(sent)
    /\ \A s \in DOMAIN sent :
        /\ sent[s].params = response.ToolCalls[sent[s].call]
        /\ (sent[s].answer = Pending) => pc = "calling"
    /\ OneAtATime(qSent)
    /\ \A s \in DOMAIN qSent :
        /\ qSent[s].call = s /\ qSent[s].params = qCalls[s]
        /\ (qSent[s].answer = Pending) => qpc = "calling"

C12_Witness ==
    /\ qpc = "calling" /\ Len(qSent) = 3
    /\ qSent[1].answer.kind = "error" /\ qSent[2].answer.kind = "result"
    /\ qSent[3].answer = Pending
    /\ qSent[1].params.Name = "summarize_content"
    /\ qSent[2].params.Name = "scrape_url"
    /\ qSent[3].params.Arguments = GoodSummarize.Arguments


\* C13: after a batch there is one reported outcome per attempted call and
\* the k-th outcome is that of the k-th call, a failed call being reported
\* as failed: processUserInput reports on every call of the list in order,
\* and the results of executeTools hold, at position k, the result of call
\* k, marked as an error when the call failed.
C13_OneOutcomePerCall ==
    /\ (pc = "returned" /\ verdicts # <<>>) =>
            /\ Len(verdicts) = Len(response.ToolCalls)
            /\ \A k \in DOMAIN verdicts : verdicts[k].call = k
    /\ (qpc \in {"final", "returned"} /\ qSent # <<>>) =>
            /\ Len(qResults) = Len(qSent)
            /\ \A k \in DOMAIN qSent :
                IF qSent[k].answer.kind = "result"
                THEN qResults[k] = [IsError |-> qSent[k].answer.IsError,
                                    Content |-> qSent[k].answer.Content]
                ELSE qResults[k].IsError


\* the texts of the successful results, in the order of the results
RECURSIVE SuccessTexts(_)
SuccessTexts(results) ==
    IF results = <<>> THEN <<>>
    ELSE IF ~Head(results).IsError /\ Head(results).Content # <<>>
    THEN <<Head(Head(results).Content)>> \o SuccessTexts(Tail(results))
    ELSE SuccessTexts(Tail(results))

\* C14: the aggregate built from the results of a batch is the texts of the
\* successful results, in call order, with a blank line between two of
\* them and nothing for a failed result: success("A"), failure,
\* success("B") give "A\n\nB".
C14_AggregateIsSuccessfulTexts ==
    (qpc \in {"final", "returned"} /\ qSent # <<>>)
        => qContext = Join(SuccessTexts(qResults), "\n\n")


\* no call of the batch of ProcessQuery was answered with a success
NoneSucceeded ==
    \A s \in DOMAIN qSent :
        qSent[s].answer.kind = "error"
            \/ (qSent[s].answer.kind = "result" /\ qSent[s].answer.IsError)

\* C15: when no call of the batch succeeded the aggregate is empty and no
\* chat completion is issued for the post-processing: PostProcess given an
\* empty content issues none, and ProcessQuery after a batch without a
\* success builds an empty context and does not ask for a final response.
C15_NoSuccessNoPostProcessing ==
    /\ (ppc = "returned" /\ ppIn.content = <<>>) => ppCalls = 0
    /\ (qpc = "returned" /\ qSent # <<>> /\ NoneSucceeded)
            => (qContext = <<>> /\ qAnswer = NoCompletion)


\* C16, as the spec has it: PostProcess issues exactly one chat completion
\* when the verb and the aggregate are both non-empty, and none, returning
\* the content unchanged without an error, when either is empty.
C16_OneCallIffVerbAndAggregate ==
    /\ ppCalls \in {0, 1}
    /\ ppc = "returned" =>
        /\ (ppCalls = 1) <=> (ppIn.instruction # <<>> /\ ppIn.content # <<>>)
        /\ (ppCalls = 0) =>
                (ppRet.out = ppIn.content /\ ppRet.err = NoError)

\* C16, amended: PostProcess issues exactly one chat completion when the
\* verb holds more than white space and the aggregate is non-empty, and
\* none, returning the content unchanged without an error, otherwise.
C16_OneCallIffVerbNotBlank ==
    /\ ppCalls \in {0, 1}
    /\ ppc = "calling" => ppCalls = 1
    /\ ppc = "returned" =>
        /\ (ppCalls = 1)
                <=> (TrimSpace(ppIn.instruction) # <<>> /\ ppIn.content # <<>>)
        /\ (ppCalls = 0) =>
                (ppRet.out = ppIn.content /\ ppRet.err = NoError)

C16_Witness ==
    /\ ppc = "returned" /\ ppCalls = 1
    /\ ppIn.instruction = <<WS, TWord("Summarize"), WS>>
    /\ ppIn.content = <<TWord("A"), WS, WS, TWord("B")>>
    /\ ppRet.out = <<TWord("Summary")>> /\ ppRet.err = NoError


\* C17: when the chat completion of the post-processing fails, the error
\* is reported and what the request produced before is still returned:
\* PostProcess returns the content it was given along with the error, and
\* ProcessQuery returns the tool calls and their results along with it.
C17_PostProcessFailureKeepsResults ==
    /\ (ppc = "returned" /\ ppRet.err # NoError) => ppRet.out = ppIn.content
    /\ (qpc = "returned" /\ qRet.err = "failed to generate final response") =>
            /\ qRet.resp # NoResponse
            /\ qRet.resp.ToolCalls = qCalls
            /\ qRet.resp.ToolResults = qResults


\* C18: a decision that asks for tools but lists none ends the request
\* normally: processUserInput returns nil, nothing is validated and nothing
\* is handed to the transport.
C18_EmptyCallListIsNoOp ==
    (Decided /\ response # NoResponse
     /\ response.ShouldCall /\ response.ToolCalls = <<>>)
        => /\ pc = "returned" /\ ret = NoError
           /\ verdicts = <<>> /\ sent = <<>>
           /\ llmCalls = 1

C18_Witness ==
    /\ pc = "returned" /\ ret = NoError
    /\ reply.kind = "content" /\ reply.shape = "well_formed"
    /\ response = reply.meant
    /\ response.ShouldCall /\ response.ToolCalls = <<>>
    /\ response.PostProcess = "Summarize"
    /\ tools # <<>>


\* NewAgent ran without getting a tool list: no server was configured, the
\* connection failed or ListTools failed
BuiltWithoutTools ==
    /\ built # NotBuilt
    /\ \/ built.config.MCPServer = ""
       \/ built.connect.kind = "error"
       \/ built.listing.kind = "error"

\* C19: NewAgent returns a usable agent whatever the tool server does: when
\* no server is configured, the connection fails or ListTools fails, the
\* agent has an empty registry, and requests are then decided and their
\* calls validated against zero tools: each proposed call is rejected as
\* unknown, nothing is dispatched, and processUserInput returns nil
\* whenever the decision was made.
C19_NewAgentAlwaysUsable ==
    /\ pc \notin {"new", "off"} => built # NotBuilt
    /\ BuiltWithoutTools =>
        /\ tools = <<>>
        /\ pc # "crashed"
        /\ sent = <<>>
        /\ \A k \in DOMAIN verdicts :
                /\ verdicts[k].outcome = "validation_failed"
                /\ verdicts[k].err = UnknownTool(response.ToolCalls[k].Name)
        /\ (pc = "returned" /\ response # NoResponse) => ret = NoError

C19_Witness ==
    /\ BuiltWithoutTools /\ built.listing.kind = "error"
    /\ pc = "returned" /\ ret = NoError
    /\ Len(verdicts) = 2
    /\ verdicts[1].err = UnknownTool("scrape_url")
    /\ verdicts[2].err = UnknownTool("summarize_content")


\* C20: after a refresh that succeeded the registry is the list ListTools
\* returned, tool for tool in the same order, with nothing of the snapshot
\* before it: the query agent's tools are the list of the last successful
\* RefreshTools, and the tools NewAgent fetched are the definitions made
\* from the list, one per tool.
C20_RefreshReplacesRegistry ==
    /\ qListed.outcome.kind = "tools" => qTools = qListed.outcome.Tools
    /\ (built # NotBuilt /\ built.listing.kind = "tools") =>
        /\ Len(tools) = Len(built.listing.Tools)
        /\ \A j \in DOMAIN tools :
            /\ tools[j].Name = built.listing.Tools[j].Name
            /\ tools[j].Description = built.listing.Tools[j].Description
            /\ tools[j].Parameters = built.listing.Tools[j].InputSchema

C20_Witness ==
    /\ qListed.outcome.kind = "tools"
    /\ Len(qListed.before) = 2 /\ qListed.before[1].Name = "scrape_url"
    /\ Len(qTools) = 1 /\ qTools[1].Name = "summarize_content"
    /\ qpc = "returned"


\* The sessions the agent's client connected
AgentSessions == {s \in sessions : s.owner = "agent"}

\* C21: over any sequence of operations on one agent, run one after the
\* other (its construction with the fetch of the tools, then calls of
\* tools), at most one successful connection is made, and once a session
\* exists every later ensureMCPSession hands back that same session: every
\* call that reached the transport went over the one session the agent holds.
C21_AtMostOneConnection ==
    /\ Cardinality(AgentSessions) <= 1
    /\ mcpSession \in AgentSessions \cup {NoSession}
    /\ AgentSessions # {} => mcpSession \in AgentSessions
    /\ \A i \in DOMAIN remote :
        remote[i].kind = "answered" => remote[i].session = mcpSession

\* the construction connected, and two tool calls later went over the
\* same session
C21_Witness ==
    /\ built # NotBuilt
    /\ built.connect.kind = "session"
    /\ Len(remote) >= 2
    /\ remote[1].kind = "answered" /\ remote[2].kind = "answered"
    /\ remote[1].session = remote[2].session
    /\ Cardinality(AgentSessions) = 1

\* C22: every session the agent created is released when the program shuts
\* down: after the shutdown no session that was created is still open.
C22_SessionsReleasedAtShutdown ==
    pc = "closed" => \A s \in sessions : s \notin open

\* the registry NewAgent gave the agent, which is the one current when the
\* request began
RegistryAtStart == NewAgent(built.config, built.connect, built.listing)

C24_RequestReachesDone == (pc = "deciding") ~> (pc = "returned")

\* a request returned after a batch of MaxCalls calls in which one call
\* failed validation and another failed in execution
C24_Witness ==
    /\ pc = "returned"
    /\ Len(verdicts) = MaxCalls
    /\ \E i \in DOMAIN verdicts : verdicts[i].outcome = "validation_failed"
    /\ \E i \in DOMAIN verdicts : verdicts[i].outcome = "execution_failed"

\* C25: the confidence of every decision ProcessInput returns lies in [0,1]
\* (0 to 10 tenths), also when the reply carried a confidence outside that
\* range.
C25_ConfidenceInUnitInterval ==
    response # NoResponse =>
        /\ response.Confidence >= 0
        /\ response.Confidence <= 10

\* C26: when the reply is a well-formed decision wrapped in a fenced code
\* block, one leading and one trailing fence are stripped before parsing and
\* ProcessInput returns the enclosed decision, not the fallback.
C26_FencedDecisionIsReturned ==
    (Decided /\ reply.kind = "content" /\ reply.shape = "fenced")
        => (response = reply.meant /\ ~IsFallback(response))

\* the query agent's registry holds a tool of that name
Registered(name) == \E j \in DOMAIN qTools : qTools[j].Name = name

C27_CliOnlyValidatedCallsDispatched ==
    \A s \in DOMAIN sent : ValidCall(sent[s].call)

\* C28: each proposed call is handed to the transport at most once in a
\* request: no two dispatches are of the same call, a call whose dispatch
\* failed is not dispatched again, and the dispatches are no more than the
\* proposed calls.
C28_DispatchedAtMostOnce ==
    /\ response = NoResponse => sent = <<>>
    /\ response # NoResponse => Len(sent) <= Len(response.ToolCalls)
    /\ \A s, t \in DOMAIN sent : sent[s].call = sent[t].call => s = t

\* the request returned; the transport failed on the first call of three,
\* which was dispatched once, and the calls after it were dispatched
C28_Witness ==
    /\ pc = "returned"
    /\ response # NoResponse
    /\ Len(response.ToolCalls) = 3
    /\ Len(sent) = 3
    /\ sent[1].call = 1
    /\ sent[1].answer.kind = "error"

\* C29: ProcessInput issues exactly one chat-completion call per
\* invocation, whatever the reply: none before it is entered, one while the
\* call is in flight, and still one once it has returned, also when the
\* reply was malformed and the fallback was returned.
C29_OneCompletionPerDecision ==
    /\ pc \in {"new", "idle"} => llmCalls = 0
    /\ pc = "deciding" => llmCalls = 1
    /\ Decided => llmCalls = 1

\* ProcessInput returned the fallback for a reply cut short, after one call
C29_Witness ==
    /\ pc = "returned"
    /\ reply.kind = "content" /\ reply.shape = "truncated"
    /\ response = FallbackResponse
    /\ llmCalls = 1

\* every call handed to the transport has been answered
AllAnswered(entries) == \A s \in DOMAIN entries : entries[s].answer # Pending

\* C30: the stages of a request come in the order of the request state
\* machine.  Until the decision call has completed nothing is validated or
\* dispatched; while the batch is being dispatched nothing is aggregated and
\* no response call is issued; the results are aggregated and the call that
\* processes them is issued only when every call of the batch has been
\* dispatched and answered; and a request that returned left no call
\* unanswered.
C30_StagesInOrder ==
    /\ pc \in {"new", "idle", "deciding"} =>
            response = NoResponse /\ verdicts = <<>> /\ sent = <<>>
    /\ pc = "returned" => AllAnswered(sent)
    /\ qpc \in {"idle", "analyzing"} =>
            /\ qSent = <<>> /\ qResults = <<>>
            /\ qContext = NoContext /\ qAnswer = NoCompletion
    /\ qpc \in {"executing", "calling"} =>
            qContext = NoContext /\ qAnswer = NoCompletion
    /\ (qpc = "final" \/ qContext # NoContext \/ (qAnswer # NoCompletion /\ qCalls # <<>>)) =>
            /\ Len(qSent) = Len(qCalls)
            /\ AllAnswered(qSent)
            /\ qIdx = Len(qCalls) + 1

\* ProcessQuery returned a response made after a batch of MaxCalls calls,
\* each dispatched and answered before the context was built
C30_Witness ==
    /\ qpc = "returned"
    /\ Len(qCalls) = MaxCalls
    /\ Len(qSent) = MaxCalls
    /\ AllAnswered(qSent)
    /\ qContext # NoContext
    /\ qAnswer.kind = "content"

\* C31: the creation of the session is not serialized.  Callers that
\* make their first use of the session at the same time each hold a
\* connection of their own once Connect has answered them, and a session
\* that was overwritten in a.mcpSession is never released: every session the
\* callers created stays open.
C31_CreationNotSerialized ==
    /\ \A g, h \in Callers :
        (g # h /\ gpc[g] = "connected" /\ gpc[h] = "connected")
            => glocal[g] # glocal[h]
    /\ \A s \in AgentSessions : s \in open
    /\ \A g \in Callers : gpc[g] = "done" => glocal[g] \in AgentSessions

\* two callers found no session, each connected, and both have returned:
\* two sessions exist for the one agent, the agent holds one of them and the
\* other is open with nothing left to close it
C31_Witness ==
    /\ \A g \in Callers : gpc[g] = "done"
    /\ Cardinality(AgentSessions) = 2
    /\ \E g, h \in Callers :
        /\ glocal[g] # glocal[h]
        /\ mcpSession = glocal[g]
        /\ glocal[h] \in open

\* the arguments of the call that tool j declares with the given type
DeclaredAs(j, type) ==
    {p \in DOMAIN toolCall.Arguments \cap DOMAIN tools[j].Parameters.Properties :
        tools[j].Parameters.Properties[p].Type = type}

\* C32: a parameter declared integer accepts what one declared number
\* accepts.  For a call with every required parameter present, a value of
\* an integer parameter that is no number gives a type mismatch, and a
\* numeric value, whole or not, is accepted: the call is Ok when no other
\* argument is mistyped.  The type switch answers alike for integer and
\* number on every value.
C32_IntegerIsNumber ==
    /\ \A v \in ArgValues :
        validateParameterType("p", v, "integer") = Ok
            <=> validateParameterType("p", v, "number") = Ok
    /\ \A j \in DOMAIN tools :
        (valErr # NotCalled /\ Matched(j) /\ tools[j].Parameters # NoSchema
         /\ AllRequiredPresent(j))
            => \A p \in DeclaredAs(j, "integer") :
                /\ toolCall.Arguments[p].k # "num" => valErr.kind = "type_mismatch"
                /\ (/\ toolCall.Arguments[p].k = "num"
                    /\ \A q \in DOMAIN toolCall.Arguments \ {p} : ~Mistyped(j, q))
                        => valErr = Ok

\* summarize_content was called with max_length 1.5 and the call accepted
C32_Witness ==
    /\ valErr = Ok
    /\ toolCall.Name = "summarize_content"
    /\ "max_length" \in DOMAIN toolCall.Arguments
    /\ toolCall.Arguments["max_length"] = JNum(15)
    /\ \E j \in DOMAIN tools : Matched(j)

\* C33: a decision with should_call false never has a tool validated or
\* dispatched, also when its list of calls is not empty: the request
\* returns at once.  Whenever a call was validated or dispatched, the
\* decision had should_call true and a list that is not empty.
C33_NoDispatchWithoutShouldCall ==
    /\ (Decided /\ response # NoResponse /\ ~response.ShouldCall) =>
            pc = "returned" /\ verdicts = <<>> /\ sent = <<>> /\ ret = NoError
    /\ (verdicts # <<>> \/ sent # <<>> \/ pc \in {"loop", "calling"}) =>
            /\ response # NoResponse
            /\ response.ShouldCall
            /\ response.ToolCalls # <<>>

\* the reply proposed MaxCalls calls with should_call false, and the request
\* returned without any of them validated or dispatched
C33_Witness ==
    /\ pc = "returned"
    /\ reply.kind = "content" /\ reply.shape = "well_formed"
    /\ response # NoResponse
    /\ ~response.ShouldCall
    /\ Len(response.ToolCalls) = MaxCalls
    /\ verdicts = <<>> /\ sent = <<>>

\* C34: ValidateToolCall is total: for every call and every registry it
\* returns nil or an error value and never aborts, also for a registered
\* tool that has no parameter schema and for a call without arguments.
C34_ValidateToolCallIsTotal ==
    valErr # NotCalled =>
        valErr.kind \in {"ok", "unknown_tool", "missing_parameter", "type_mismatch"}

\* the required parameters of tool j the call supplies with a null value
RequiredNull(j) ==
    {p \in DOMAIN toolCall.Arguments :
        /\ \E r \in DOMAIN tools[j].Parameters.Required :
                tools[j].Parameters.Required[r] = p
        /\ toolCall.Arguments[p] = JNull}

\* C35: the required check looks at the presence of the key only.  A call
\* whose required parameters are all present, one of them with a null
\* value, is never rejected as missing a parameter; it is rejected with a
\* type mismatch when that parameter is declared string, integer, number or
\* boolean, and accepted when it is declared otherwise or not at all and no
\* other argument is mistyped.
C35_RequiredIsKeyPresence ==
    \A j \in DOMAIN tools :
        (valErr # NotCalled /\ Matched(j) /\ tools[j].Parameters # NoSchema
         /\ AllRequiredPresent(j))
            => \A p \in RequiredNull(j) :
                /\ valErr.kind # "missing_parameter"
                /\ Mistyped(j, p) => valErr.kind = "type_mismatch"
                /\ (\A q \in DOMAIN toolCall.Arguments : ~Mistyped(j, q)) => valErr = Ok

\* convert was called with its required target, declared object, null and
\* the call accepted
C35_Witness ==
    /\ valErr = Ok
    /\ toolCall.Name = "convert"
    /\ DOMAIN toolCall.Arguments = {"ratio", "target"}
    /\ toolCall.Arguments["target"] = JNull
    /\ \E j \in DOMAIN tools :
        /\ Matched(j) /\ "target" \in RequiredNull(j)
        /\ tools[j].Parameters.Properties["target"].Type = "object"

\* convert was called with its required ratio, declared number, null and
\* the call rejected with a type mismatch
C35_WitnessMismatch ==
    /\ valErr = TypeMismatch("ratio", "a number")
    /\ toolCall.Name = "convert"
    /\ DOMAIN toolCall.Arguments = {"ratio", "target"}
    /\ toolCall.Arguments["ratio"] = JNull

\* the call of CallToolRemote at position i of the log failed to connect
FailedToConnect(i) ==
    remote[i].kind = "error" /\ remote[i].err = "failed to connect to MCP server"

\* C36: a failed connection attempt leaves the agent without a session and
\* gives the error to that caller only.  The agent holds a session exactly
\* when a connection succeeded; with a server configured, a call made
\* without a session attempts the connection again, so that it either fails
\* to connect or is answered over a session, whatever went before; and once
\* a connection has succeeded no further attempt is made: no later call
\* fails to connect and no second session is created.
C36_FailedConnectIsNotSticky ==
    /\ (mcpSession = NoSession) <=> (AgentSessions = {})
    /\ Cardinality(AgentSessions) <= 1
    /\ \A i \in DOMAIN remote :
        /\ built.config.MCPServer # "" =>
                FailedToConnect(i) \/ remote[i].kind = "answered"
        /\ FailedToConnect(i) =>
                /\ built.connect.kind # "session"
                /\ \A k \in 1..(i - 1) : FailedToConnect(k)
        /\ remote[i].kind = "answered" => remote[i].session \in AgentSessions

\* the fetch of the construction and the first call failed to connect, the
\* second call connected, and the third went over the same session
C36_Witness ==
    /\ built # NotBuilt
    /\ built.connect.kind = "error"
    /\ Len(remote) = 3
    /\ FailedToConnect(1)
    /\ remote[2].kind = "answered" /\ remote[3].kind = "answered"
    /\ remote[2].session = remote[3].session
    /\ Cardinality(AgentSessions) = 1

\* C37: a refresh that fails, at the connection or at ListTools, leaves
\* the registry exactly as it was before the refresh; only a ListTools that
\* succeeded replaces it.  After a failed RefreshTools the query agent's
\* tools are those from before it; fetchToolsFromMCP hands back the registry
\* it was given whenever the connection or the listing failed; and the agent
\* NewAgent built after a failed fetch has the empty registry it started
\* with.
C37_FailedRefreshKeepsRegistry ==
    /\ qListed.outcome.kind = "error" => qTools = qListed.before
    /\ qTools # qListed.before => qListed.outcome.kind = "tools"
    /\ \A current \in ValidateRegistries :
        /\ \A listing \in ListToolsOutcomes :
            fetchToolsFromMCP(current, [kind |-> "error"], listing).tools = current
        /\ fetchToolsFromMCP(current, [kind |-> "session"], [kind |-> "error"]).tools
                = current
    /\ (built # NotBuilt /\ built.config.MCPServer # ""
        /\ (built.connect.kind = "error" \/ built.listing.kind = "error")) =>
            tools = <<>>

\* RefreshTools failed on an agent that held two tools, and it still holds
\* them
C37_Witness ==
    /\ qListed.outcome.kind = "error"
    /\ Len(qListed.before) = 2
    /\ qTools = qListed.before

\* the goroutines whose ScrapeURL is running
InProgress == {i \in DOMAIN wpc : wpc[i] = "scraping"}

\* C38: ScrapeMultiple never has more than 3 executions of ScrapeURL in
\* progress at the same time, however many URLs it was given.
C38_AtMostThreeInProgress ==
    /\ Cardinality(InProgress) <= 3
    /\ Cardinality(InProgress) <= sem
    /\ sem <= SemaphoreSize

\* of four URLs three are being scraped and the goroutine of the fourth
\* waits for the semaphore
C38_Witness ==
    /\ nurls = 4
    /\ Cardinality(InProgress) = 3
    /\ \E i \in DOMAIN wpc : wpc[i] = "acquiring"

\* the goroutine of URL i has delivered its outcome
Delivered(i) == wpc[i] \in {"releasing", "done"}

\* what C39 asks of a return of ScrapeMultiple
CompleteReturn ==
    spc = "returned" =>
        /\ \A i \in 1..nurls : Delivered(i) /\ scraped[i] # "pending"
        /\ Len(sret.results) = nurls
        /\ \A i \in 1..nurls :
            sret.results[i] = IF scraped[i] = "ok" THEN ResultOf(i) ELSE NoResult
        /\ (sret.err # NoError) <=> (\E i \in 1..nurls : scraped[i] = "failed")

\* C39: ScrapeMultiple returns only after the goroutine of every URL has
\* finished its scrape and delivered its outcome; it never deadlocks: for
\* any number of URLs and any mix of failures it does return and every
\* goroutine runs to its end; and on return results[i] is the result for
\* urls[i] when that scrape succeeded and nil when it failed, with an error
\* returned exactly when at least one scrape failed.
C39_ReturnsCompleteResults ==
    /\ []CompleteReturn
    /\ <>[](spc = "returned" /\ \A i \in 1..nurls : wpc[i] = "done")

\* ScrapeMultiple returned for MaxURLs URLs of which the second failed and
\* the others succeeded
C39_Witness ==
    /\ spc = "returned"
    /\ nurls = MaxURLs
    /\ scraped[2] = "failed"
    /\ \A i \in 1..nurls : i # 2 => scraped[i] = "ok"
    /\ sret.err # NoError
    /\ sret.results[2] = NoResult
    /\ sret.results[1] = ResultOf(1)

====
